---- MODULE Spec2Model ----
(***************************************************************************)
(* The cache-eviction engines of feizhaiblw/cache: LruCache, FifoCache,    *)
(* LfuCache and LruKCache, each a hash index plus an ordering structure.   *)
(* The intrusive lists are modelled at pointer level: `mem` is the heap,   *)
(* a function from the addresses of the live nodes to their fields.        *)
(***************************************************************************)
EXTENDS Integers, Sequences, FiniteSets, TLC

\* ------------------------------------------------------------ bounds
MaxKey == 3
MaxVal == 2
MaxCap == 2
MaxK == 2
MaxFreq == 2
MaxTime == 2
\* the longest run of strictly increasing readings of the clock
MaxTicks == 8
NumThreads == 2

Keys == 1..MaxKey
\* one key more, for the runs that need four keys in the two tables of LRU-K
MoreKeys == 1..(MaxKey + 1)
Values == 1..MaxVal
Threads == 1..NumThreads

\* ------------------------------------------------------------ program constants
\* nullptr
Null == <<"nullptr">>
\* the key and value of a default-constructed (sentinel) node
NoKey == 0
NoValue == 0
\* the first result of steady_clock::now()
Epoch == 0
\* TimeStamp::min()
TimeStampMin == -1
\* TimeStamp::max()
TimeStampMax == MaxTicks + 1

PolicyType == {"LRU", "LFU", "FIFO", "LRU_K"}

\* ------------------------------------------------------------ std::unordered_map
EmptyMap == [x \in {} |-> Null]
MapErase(m, k) == [x \in DOMAIN m \ {k} |-> m[x]]
MapPut(m, k, v) == [x \in DOMAIN m \cup {k} |-> IF x = k THEN v ELSE m[x]]

\* operator new: an address no live node has. A node is named after the key it is
\* constructed with (a node's key never changes), and numbered should that name be taken.
New(mem, key) ==
    <<"node", key, CHOOSE i \in 1..(Cardinality(DOMAIN mem) + 1) :
                     /\ <<"node", key, i>> \notin DOMAIN mem
                     /\ \A j \in 1..(i - 1) : <<"node", key, j>> \in DOMAIN mem>>
\* operator delete
Delete(mem, p) == MapErase(mem, p)

\* ------------------------------------------------------------ LruCache
LruHead == <<"head_">>
LruTail == <<"tail_">>

\* the constructor: what it threw, and the cache constructed (none if it threw)
LruCacheCtor(capacity) ==
    IF capacity <= 0 THEN [threw |-> "InvalidCapacityException", c |-> Null]
    ELSE [threw |-> "none",
          c |-> [capacity_ |-> capacity,
                 size_     |-> 0,
                 cache_    |-> EmptyMap,
                 mem       |-> (LruHead :> [key |-> NoKey, value |-> NoValue, prev |-> Null, next |-> LruTail])
                               @@ (LruTail :> [key |-> NoKey, value |-> NoValue, prev |-> LruHead, next |-> Null])]]

LruNode(k, v) == [key |-> k, value |-> v, prev |-> Null, next |-> Null]

LruAddToHead(mem, node) ==
    LET m1 == [mem EXCEPT ![node].prev = LruHead]
        m2 == [m1 EXCEPT ![node].next = m1[LruHead].next]
        m3 == [m2 EXCEPT ![m2[LruHead].next].prev = node]
    IN  [m3 EXCEPT ![LruHead].next = node]

LruRemoveNode(mem, node) ==
    LET m1 == [mem EXCEPT ![mem[node].prev].next = mem[node].next]
    IN  [m1 EXCEPT ![m1[node].next].prev = m1[node].prev]

LruMoveToHead(mem, node) == LruAddToHead(LruRemoveNode(mem, node), node)

\* faulty variant: unlinks the node next to the head, the most recently used one
LruRemoveTailAtHead(mem) ==
    LET last == mem[LruHead].next
    IN  [node |-> last, mem |-> LruRemoveNode(mem, last)]

\* removeTail: the node unlinked and the heap afterwards
LruRemoveTail(mem) ==
    LET last == mem[LruTail].prev
    IN  [node |-> last, mem |-> LruRemoveNode(mem, last)]

\* faulty variant: put on a key of the index counts one entry less
LruUpdateCountsDown(c, key, value) ==
    LET node == c.cache_[key]
    IN  [c EXCEPT !.mem = LruMoveToHead([c.mem EXCEPT ![node].value = value], node),
                  !.size_ = c.size_ - 1]

\* put, the key is in the index
LruUpdate(c, key, value) ==
    LET node == c.cache_[key]
    IN  [c EXCEPT !.mem = LruMoveToHead([c.mem EXCEPT ![node].value = value], node)]

\* faulty variant: the capacity test off by one
LruFullOffByOne(c) == c.size_ > c.capacity_

LruFull(c) == c.size_ >= c.capacity_

\* put, the key is not in the index
LruInsert(c, key, value) ==
    LET new_node == New(c.mem, key)
        c0 == [c EXCEPT !.mem = new_node :> LruNode(key, value) @@ c.mem]
        rt == LruRemoveTail(c0.mem)
        c1 == IF LruFull(c0)
              THEN [c0 EXCEPT !.mem = Delete(rt.mem, rt.node),
                              !.cache_ = MapErase(c0.cache_, c0.mem[rt.node].key),
                              !.size_ = c0.size_ - 1]
              ELSE c0
    IN  [c1 EXCEPT !.mem = LruAddToHead(c1.mem, new_node),
                   !.cache_ = MapPut(c1.cache_, key, new_node),
                   !.size_ = c1.size_ + 1]

LruPutOp(c, key, value) ==
    IF key \in DOMAIN c.cache_ THEN LruUpdate(c, key, value) ELSE LruInsert(c, key, value)

\* get: the cache afterwards, whether it threw, and the value returned
LruGetOp(c, key) ==
    IF key \notin DOMAIN c.cache_
    THEN [c |-> c, threw |-> "out_of_range", value |-> NoValue]
    ELSE LET node == c.cache_[key]
             c1 == [c EXCEPT !.mem = LruMoveToHead(c.mem, node)]
         IN  [c |-> c1, threw |-> "none", value |-> c1.mem[node].value]

LruContainsOp(c, key) == key \in DOMAIN c.cache_

LruEmpty(c) == c.size_ = 0

\* faulty variant: contains relinks the node it finds, as get does
LruConstCallsRelink(c, key) ==
    [c        |-> IF key \in DOMAIN c.cache_
                  THEN [c EXCEPT !.mem = LruMoveToHead(c.mem, c.cache_[key])] ELSE c,
     contains |-> LruContainsOp(c, key),
     size     |-> c.size_,
     empty    |-> LruEmpty(c),
     capacity |-> c.capacity_]

\* the const member functions contains(key), size(), empty() and capacity(): the cache
\* afterwards and what each returns
LruConstCalls(c, key) ==
    [c        |-> c,
     contains |-> LruContainsOp(c, key),
     size     |-> c.size_,
     empty    |-> LruEmpty(c),
     capacity |-> c.capacity_]

\* faulty variant: clear leaves the counter as it was
LruClearOpKeepsSize(c) ==
    LET m1 == [p \in DOMAIN c.mem \ {c.cache_[k] : k \in DOMAIN c.cache_} |-> c.mem[p]]
        m2 == [m1 EXCEPT ![LruHead].next = LruTail]
    IN  [c EXCEPT !.mem = [m2 EXCEPT ![LruTail].prev = LruHead],
                  !.cache_ = EmptyMap]

LruClearOp(c) ==
    LET m1 == [p \in DOMAIN c.mem \ {c.cache_[k] : k \in DOMAIN c.cache_} |-> c.mem[p]]
        m2 == [m1 EXCEPT ![LruHead].next = LruTail]
    IN  [c EXCEPT !.mem = [m2 EXCEPT ![LruTail].prev = LruHead],
                  !.cache_ = EmptyMap,
                  !.size_ = 0]

\* ------------------------------------------------------------ FifoCache
\* the constructor: what it threw, and the cache constructed (none if it threw)
FifoCacheCtor(capacity) ==
    IF capacity <= 0 THEN [threw |-> "InvalidCapacityException", c |-> Null]
    ELSE [threw |-> "none",
          c |-> [capacity_ |-> capacity,
                 size_     |-> 0,
                 cache_    |-> EmptyMap,
                 head_     |-> Null,
                 tail_     |-> Null,
                 mem       |-> EmptyMap]]

FifoNode(k, v) == [key |-> k, value |-> v, next |-> Null]

\* faulty variant: links the new node before the head
FifoAddToTailAtHead(c, node) ==
    IF c.tail_ = Null
    THEN [c EXCEPT !.head_ = node, !.tail_ = node]
    ELSE [c EXCEPT !.mem = [c.mem EXCEPT ![node].next = c.head_], !.head_ = node]

FifoAddToTail(c, node) ==
    IF c.tail_ = Null
    THEN [c EXCEPT !.head_ = node, !.tail_ = node]
    ELSE [c EXCEPT !.mem = [c.mem EXCEPT ![c.tail_].next = node], !.tail_ = node]

\* faulty variant: removeHead leaves tail_ alone when the queue becomes empty
FifoRemoveHeadKeepsTail(c) ==
    IF c.head_ = Null
    THEN [node |-> Null, c |-> c]
    ELSE [node |-> c.head_, c |-> [c EXCEPT !.head_ = c.mem[c.head_].next]]

\* removeHead: the node unlinked (or nullptr) and the cache afterwards
FifoRemoveHead(c) ==
    IF c.head_ = Null
    THEN [node |-> Null, c |-> c]
    ELSE LET old_head == c.head_
             c1 == [c EXCEPT !.head_ = c.mem[c.head_].next]
         IN  [node |-> old_head,
              c |-> IF c1.head_ = Null THEN [c1 EXCEPT !.tail_ = Null] ELSE c1]

\* faulty variant: put on a key of the index forgets the new value
FifoUpdateKeepsValue(c, key, value) == c

\* put, the key is in the index
FifoUpdate(c, key, value) ==
    [c EXCEPT !.mem = [c.mem EXCEPT ![c.cache_[key]].value = value]]

FifoFull(c) == c.size_ >= c.capacity_

\* put, the key is not in the index
FifoInsert(c, key, value) ==
    LET new_node == New(c.mem, key)
        c0 == [c EXCEPT !.mem = new_node :> FifoNode(key, value) @@ c.mem]
        rh == FifoRemoveHead(c0)
        c1 == IF FifoFull(c0)
              THEN IF rh.node # Null
                   THEN [rh.c EXCEPT !.cache_ = MapErase(rh.c.cache_, rh.c.mem[rh.node].key),
                                     !.size_ = rh.c.size_ - 1,
                                     !.mem = Delete(rh.c.mem, rh.node)]
                   ELSE rh.c
              ELSE c0
        c2 == FifoAddToTail(c1, new_node)
    IN  [c2 EXCEPT !.cache_ = MapPut(c2.cache_, key, new_node),
                   !.size_ = c2.size_ + 1]

FifoPutOp(c, key, value) ==
    IF key \in DOMAIN c.cache_ THEN FifoUpdate(c, key, value) ELSE FifoInsert(c, key, value)

\* faulty variant: get takes the node it finds for the tail of the queue
FifoGetOpMovesTail(c, key) ==
    IF key \notin DOMAIN c.cache_
    THEN [c |-> c, threw |-> "out_of_range", value |-> NoValue]
    ELSE [c |-> [c EXCEPT !.tail_ = c.cache_[key]], threw |-> "none",
          value |-> c.mem[c.cache_[key]].value]

\* get: the cache afterwards, whether it threw, and the value returned
FifoGetOp(c, key) ==
    IF key \notin DOMAIN c.cache_
    THEN [c |-> c, threw |-> "out_of_range", value |-> NoValue]
    ELSE [c |-> c, threw |-> "none", value |-> c.mem[c.cache_[key]].value]

FifoContainsOp(c, key) == key \in DOMAIN c.cache_

FifoEmpty(c) == c.size_ = 0

\* the const member functions contains(key), size(), empty() and capacity(): the cache
\* afterwards and what each returns
FifoConstCalls(c, key) ==
    [c        |-> c,
     contains |-> FifoContainsOp(c, key),
     size     |-> c.size_,
     empty    |-> FifoEmpty(c),
     capacity |-> c.capacity_]

\* faulty variant: clear leaves the counter as it was
FifoClearOpKeepsSize(c) ==
    [c EXCEPT !.mem = [p \in DOMAIN c.mem \ {c.cache_[k] : k \in DOMAIN c.cache_} |-> c.mem[p]],
              !.cache_ = EmptyMap,
              !.head_ = Null,
              !.tail_ = Null]

FifoClearOp(c) ==
    [c EXCEPT !.mem = [p \in DOMAIN c.mem \ {c.cache_[k] : k \in DOMAIN c.cache_} |-> c.mem[p]],
              !.cache_ = EmptyMap,
              !.size_ = 0,
              !.head_ = Null,
              !.tail_ = Null]

\* ------------------------------------------------------------ LfuCache
BucketHead(frequency) == <<"bucket_head", frequency>>
BucketTail(frequency) == <<"bucket_tail", frequency>>

\* the constructor: what it threw, and the cache constructed (none if it threw)
LfuCacheCtor(capacity) ==
    IF capacity <= 0 THEN [threw |-> "InvalidCapacityException", c |-> Null]
    ELSE [threw |-> "none",
          c |-> [capacity_          |-> capacity,
                 min_frequency_     |-> 1,
                 cache_             |-> EmptyMap,
                 frequency_buckets_ |-> EmptyMap,
                 mem                |-> EmptyMap]]

CacheNode(k, v, freq) == [key |-> k, value |-> v, frequency |-> freq, prev |-> Null, next |-> Null]

\* FrequencyBucket(): two dummy nodes linked to each other, size 0
FrequencyBucket(c, frequency) ==
    [c EXCEPT !.frequency_buckets_ =
                  MapPut(c.frequency_buckets_, frequency,
                         [head |-> BucketHead(frequency), tail |-> BucketTail(frequency), size |-> 0]),
              !.mem = (BucketHead(frequency) :> [CacheNode(NoKey, NoValue, 0) EXCEPT !.next = BucketTail(frequency)])
                      @@ (BucketTail(frequency) :> [CacheNode(NoKey, NoValue, 0) EXCEPT !.prev = BucketHead(frequency)])
                      @@ c.mem]

\* faulty variant: links the node before the tail dummy, behind the nodes of the bucket
BucketAddToHeadAtTail(c, frequency, node) ==
    LET tail == c.frequency_buckets_[frequency].tail
        m1 == [c.mem EXCEPT ![node].next = tail]
        m2 == [m1 EXCEPT ![node].prev = m1[tail].prev]
        m3 == [m2 EXCEPT ![m2[tail].prev].next = node]
        m4 == [m3 EXCEPT ![tail].prev = node]
    IN  [c EXCEPT !.mem = m4,
                  !.frequency_buckets_[frequency].size = c.frequency_buckets_[frequency].size + 1]

BucketAddToHead(c, frequency, node) ==
    LET head == c.frequency_buckets_[frequency].head
        m1 == [c.mem EXCEPT ![node].prev = head]
        m2 == [m1 EXCEPT ![node].next = m1[head].next]
        m3 == [m2 EXCEPT ![m2[head].next].prev = node]
        m4 == [m3 EXCEPT ![head].next = node]
    IN  [c EXCEPT !.mem = m4,
                  !.frequency_buckets_[frequency].size = c.frequency_buckets_[frequency].size + 1]

\* faulty variant: unlinks the node and leaves the counter of the bucket as it was
BucketRemoveNodeKeepsSize(c, frequency, node) ==
    LET m1 == [c.mem EXCEPT ![c.mem[node].prev].next = c.mem[node].next]
    IN  [c EXCEPT !.mem = [m1 EXCEPT ![m1[node].next].prev = m1[node].prev]]

BucketRemoveNode(c, frequency, node) ==
    LET m1 == [c.mem EXCEPT ![c.mem[node].prev].next = c.mem[node].next]
        m2 == [m1 EXCEPT ![m1[node].next].prev = m1[node].prev]
    IN  [c EXCEPT !.mem = m2,
                  !.frequency_buckets_[frequency].size = c.frequency_buckets_[frequency].size - 1]

\* faulty variant: unlinks the node next to the head, the latest to enter the bucket
BucketRemoveTailAtHead(c, frequency) ==
    LET bucket == c.frequency_buckets_[frequency]
        last == c.mem[bucket.head].next
    IN  IF bucket.size = 0 THEN [node |-> Null, c |-> c]
        ELSE IF last = bucket.tail THEN [node |-> Null, c |-> c]
        ELSE [node |-> last, c |-> BucketRemoveNode(c, frequency, last)]

\* FrequencyBucket::removeTail: the node unlinked (or nullptr) and the cache afterwards
BucketRemoveTail(c, frequency) ==
    LET bucket == c.frequency_buckets_[frequency]
        last == c.mem[bucket.tail].prev
    IN  IF bucket.size = 0 THEN [node |-> Null, c |-> c]
        ELSE IF last = bucket.head THEN [node |-> Null, c |-> c]
        ELSE [node |-> last, c |-> BucketRemoveNode(c, frequency, last)]

BucketEmpty(c, frequency) == c.frequency_buckets_[frequency].size = 0

GetOrCreateBucket(c, frequency) ==
    IF frequency \notin DOMAIN c.frequency_buckets_ THEN FrequencyBucket(c, frequency) ELSE c

\* faulty variant: moves the node up one bucket and never raises min_frequency_
UpdateFrequencyKeepsMin(c, node) ==
    LET old_freq == c.mem[node].frequency
        new_freq == old_freq + 1
        c1 == IF old_freq \in DOMAIN c.frequency_buckets_
              THEN BucketRemoveNode(c, old_freq, node)
              ELSE c
        c2 == [c1 EXCEPT !.mem[node].frequency = new_freq]
    IN  BucketAddToHead(GetOrCreateBucket(c2, new_freq), new_freq, node)

\* faulty variant: raises min_frequency_ whenever the node leaves the bucket of that frequency
UpdateFrequencyRaisesMinAlways(c, node) ==
    LET old_freq == c.mem[node].frequency
        new_freq == old_freq + 1
        c1 == IF old_freq \in DOMAIN c.frequency_buckets_
              THEN LET r == BucketRemoveNode(c, old_freq, node)
                   IN  IF old_freq = r.min_frequency_
                       THEN [r EXCEPT !.min_frequency_ = r.min_frequency_ + 1]
                       ELSE r
              ELSE c
        c2 == [c1 EXCEPT !.mem[node].frequency = new_freq]
    IN  BucketAddToHead(GetOrCreateBucket(c2, new_freq), new_freq, node)

UpdateFrequency(c, node) ==
    LET old_freq == c.mem[node].frequency
        new_freq == old_freq + 1
        c1 == IF old_freq \in DOMAIN c.frequency_buckets_
              THEN LET r == BucketRemoveNode(c, old_freq, node)
                   IN  IF BucketEmpty(r, old_freq) /\ old_freq = r.min_frequency_
                       THEN [r EXCEPT !.min_frequency_ = r.min_frequency_ + 1]
                       ELSE r
              ELSE c
        c2 == [c1 EXCEPT !.mem[node].frequency = new_freq]
    IN  BucketAddToHead(GetOrCreateBucket(c2, new_freq), new_freq, node)

\* evictLFU: the node unlinked (or nullptr) and the cache afterwards
EvictLFU(c) ==
    IF c.min_frequency_ \notin DOMAIN c.frequency_buckets_ \/ BucketEmpty(c, c.min_frequency_)
    THEN [node |-> Null, c |-> c]
    ELSE BucketRemoveTail(c, c.min_frequency_)

\* faulty variant: put on a key of the index replaces the value and counts no access
LfuUpdateKeepsFrequency(c, key, value) ==
    LET node == c.cache_[key]
    IN  [c EXCEPT !.mem[node].value = value]

\* put, the key is in the index
LfuUpdate(c, key, value) ==
    LET node == c.cache_[key]
    IN  UpdateFrequency([c EXCEPT !.mem[node].value = value], node)

\* faulty variant: the cache counts as full one entry early
LfuFullEarly(c) == Cardinality(DOMAIN c.cache_) + 1 >= c.capacity_

LfuFull(c) == Cardinality(DOMAIN c.cache_) >= c.capacity_

\* put, the key is not in the index
LfuInsert(c, key, value) ==
    LET ev == EvictLFU(c)
        c1 == IF LfuFull(c)
              THEN IF ev.node # Null
                   THEN [ev.c EXCEPT !.cache_ = MapErase(ev.c.cache_, ev.c.mem[ev.node].key),
                                     !.mem = Delete(ev.c.mem, ev.node)]
                   ELSE ev.c
              ELSE c
        new_node == New(c1.mem, key)
        c2 == [c1 EXCEPT !.mem = new_node :> CacheNode(key, value, 1) @@ c1.mem]
        c3 == BucketAddToHead(GetOrCreateBucket(c2, 1), 1, new_node)
    IN  [c3 EXCEPT !.min_frequency_ = 1,
                   !.cache_ = MapPut(c3.cache_, key, new_node)]

LfuPutOp(c, key, value) ==
    IF c.capacity_ = 0 THEN c
    ELSE IF key \in DOMAIN c.cache_ THEN LfuUpdate(c, key, value)
    ELSE LfuInsert(c, key, value)

\* get: the cache afterwards, whether it threw, and the value returned
LfuGetOp(c, key) ==
    IF key \notin DOMAIN c.cache_
    THEN [c |-> c, threw |-> "out_of_range", value |-> NoValue]
    ELSE LET node == c.cache_[key]
             c1 == UpdateFrequency(c, node)
         IN  [c |-> c1, threw |-> "none", value |-> c1.mem[node].value]

LfuContainsOp(c, key) == key \in DOMAIN c.cache_

LfuSize(c) == Cardinality(DOMAIN c.cache_)

LfuEmpty(c) == DOMAIN c.cache_ = {}

\* the const member functions contains(key), size(), empty() and capacity(): the cache
\* afterwards and what each returns
LfuConstCalls(c, key) ==
    [c        |-> c,
     contains |-> LfuContainsOp(c, key),
     size     |-> LfuSize(c),
     empty    |-> LfuEmpty(c),
     capacity |-> c.capacity_]

LfuClearOp(c) ==
    [c EXCEPT !.mem = [p \in DOMAIN c.mem \ ({c.cache_[k] : k \in DOMAIN c.cache_}
                                             \cup {c.frequency_buckets_[f].head : f \in DOMAIN c.frequency_buckets_}
                                             \cup {c.frequency_buckets_[f].tail : f \in DOMAIN c.frequency_buckets_})
                       |-> c.mem[p]],
              !.cache_ = EmptyMap,
              !.frequency_buckets_ = EmptyMap,
              !.min_frequency_ = 1]

GetMinFrequency(c) == c.min_frequency_

GetFrequency(c, key) == IF key \notin DOMAIN c.cache_ THEN 0 ELSE c.mem[c.cache_[key]].frequency

\* ------------------------------------------------------------ LruKCache
\* faulty variant: the constructor tests k before capacity
LruKCacheCtorTestsKFirst(capacity, k) ==
    IF k <= 0 THEN [threw |-> "invalid_argument", c |-> Null]
    ELSE IF capacity <= 0 THEN [threw |-> "InvalidCapacityException", c |-> Null]
    ELSE [threw |-> "none",
          c |-> [capacity_ |-> capacity, k_ |-> k, history_ |-> EmptyMap, cache_ |-> EmptyMap]]

\* the constructor: what it threw, and the cache constructed (none if it threw)
LruKCacheCtor(capacity, k) ==
    IF capacity <= 0 THEN [threw |-> "InvalidCapacityException", c |-> Null]
    ELSE IF k <= 0 THEN [threw |-> "invalid_argument", c |-> Null]
    ELSE [threw |-> "none",
          c |-> [capacity_ |-> capacity,
                 k_        |-> k,
                 history_  |-> EmptyMap,
                 cache_    |-> EmptyMap]]

PushBack(access_times, now) == Append(access_times, now)
PopFront(access_times) == Tail(access_times)
Front(access_times) == Head(access_times)
Back(access_times) == access_times[Len(access_times)]

\* faulty variant: every access starts the queue of the key afresh
RecordHistoryAccessStartsAfresh(c, key, now) ==
    [c EXCEPT !.history_ = MapPut(c.history_, key, PushBack(<<>>, now))]

RecordHistoryAccess(c, key, now) ==
    IF key \notin DOMAIN c.history_
    THEN [c EXCEPT !.history_ = MapPut(c.history_, key, PushBack(<<>>, now))]
    ELSE LET pushed == PushBack(c.history_[key], now)
         IN  [c EXCEPT !.history_[key] = IF Len(pushed) > c.k_ THEN PopFront(pushed) ELSE pushed]

\* faulty variant: the access also forgets the value of the record
RecordCacheAccessForgetsValue(c, key, now) ==
    LET pushed == PushBack(c.cache_[key].access_times, now)
    IN  [c EXCEPT !.cache_[key].access_times = IF Len(pushed) > c.k_ THEN PopFront(pushed) ELSE pushed,
                  !.cache_[key].value = NoValue]

\* faulty variant: the queue of the promoted record grows without bound
RecordCacheAccessUnbounded(c, key, now) ==
    [c EXCEPT !.cache_[key].access_times = PushBack(c.cache_[key].access_times, now)]

\* recordCacheAccess on the promoted record of `key`
RecordCacheAccess(c, key, now) ==
    LET pushed == PushBack(c.cache_[key].access_times, now)
    IN  [c EXCEPT !.cache_[key].access_times = IF Len(pushed) > c.k_ THEN PopFront(pushed) ELSE pushed]

\* faulty variant: the promoted record starts with the latest timestamp alone
PromoteToCacheLatestOnly(c, key, value) ==
    IF key \notin DOMAIN c.history_
    THEN [c |-> c, threw |-> "runtime_error"]
    ELSE [c |-> [c EXCEPT !.cache_ = MapPut(c.cache_, key,
                                            [value |-> value,
                                             access_times |-> <<Back(c.history_[key])>>]),
                          !.history_ = MapErase(c.history_, key)],
          threw |-> "none"]

\* faulty variant: the record is copied to the promoted table and stays in the history table
PromoteToCacheKeepsHistory(c, key, value) ==
    IF key \notin DOMAIN c.history_
    THEN [c |-> c, threw |-> "runtime_error"]
    ELSE [c |-> [c EXCEPT !.cache_ = MapPut(c.cache_, key,
                                            [value |-> value, access_times |-> c.history_[key]])],
          threw |-> "none"]

\* promoteToCache: the cache afterwards and whether it threw
PromoteToCache(c, key, value) ==
    IF key \notin DOMAIN c.history_
    THEN [c |-> c, threw |-> "runtime_error"]
    ELSE [c |-> [c EXCEPT !.cache_ = MapPut(c.cache_, key,
                                            [value |-> value, access_times |-> c.history_[key]]),
                          !.history_ = MapErase(c.history_, key)],
          threw |-> "none"]

GetCacheKthAccessTime(record) ==
    IF Len(record.access_times) = 0 THEN TimeStampMin ELSE Back(record.access_times)

\* The for loop over history_ (lines 115-127), visiting the keys in the order `order`
RECURSIVE ScanHistory(_, _, _, _)
ScanHistory(c, order, i, acc) ==
    IF i > Len(order) THEN acc
    ELSE LET key == order[i]
             record == c.history_[key]
             first_access == Front(record)
         IN  IF Len(record) < c.k_ /\ (~acc.found_in_history \/ first_access < acc.earliest_time)
             THEN ScanHistory(c, order, i + 1,
                              [earliest_time |-> first_access, victim_key |-> key, found_in_history |-> TRUE])
             ELSE ScanHistory(c, order, i + 1, acc)

\* The for loop over cache_ (lines 142-151), visiting the keys in the order `order`
RECURSIVE ScanCache(_, _, _, _)
ScanCache(c, order, i, acc) ==
    IF i > Len(order) THEN acc
    ELSE LET key == order[i]
             kth_access == GetCacheKthAccessTime(c.cache_[key])
         IN  IF kth_access < acc.earliest_time
             THEN ScanCache(c, order, i + 1, [earliest_time |-> kth_access, victim_key |-> key])
             ELSE ScanCache(c, order, i + 1, acc)

\* faulty variant: looks for the victim among the promoted records first
FindVictimKeyCacheFirst(c, history_order, cache_order) ==
    LET h == ScanHistory(c, history_order, 1,
                         [earliest_time |-> TimeStampMax, victim_key |-> NoKey, found_in_history |-> FALSE])
    IN  IF DOMAIN c.cache_ # {}
        THEN [key |-> ScanCache(c, cache_order, 1,
                                [earliest_time |-> TimeStampMax, victim_key |-> cache_order[1]]).victim_key,
              threw |-> "none"]
        ELSE IF h.found_in_history THEN [key |-> h.victim_key, threw |-> "none"]
        ELSE [key |-> NoKey, threw |-> "runtime_error"]

\* faulty variant: gives up when no history record has fewer than k_ accesses
FindVictimKeyHistoryOnly(c, history_order, cache_order) ==
    LET h == ScanHistory(c, history_order, 1,
                         [earliest_time |-> TimeStampMax, victim_key |-> NoKey, found_in_history |-> FALSE])
    IN  IF h.found_in_history THEN [key |-> h.victim_key, threw |-> "none"]
        ELSE [key |-> NoKey, threw |-> "runtime_error"]

\* findVictimKey: the key chosen, or that it threw; history_order and cache_order are
\* the iteration orders of the two unordered maps
FindVictimKey(c, history_order, cache_order) ==
    LET h == ScanHistory(c, history_order, 1,
                         [earliest_time |-> TimeStampMax, victim_key |-> NoKey, found_in_history |-> FALSE])
    IN  IF h.found_in_history THEN [key |-> h.victim_key, threw |-> "none"]
        ELSE IF DOMAIN c.cache_ = {} THEN [key |-> NoKey, threw |-> "runtime_error"]
        ELSE [key |-> ScanCache(c, cache_order, 1,
                                [earliest_time |-> TimeStampMax, victim_key |-> cache_order[1]]).victim_key,
              threw |-> "none"]

\* the iteration orders an unordered_map with key set S can have
IterationOrders(S) ==
    {o \in [1..Cardinality(S) -> S] : \A i, j \in 1..Cardinality(S) : i # j => o[i] # o[j]}

\* faulty variant: promotes one access early
ReachedKEarly(c, key) == key \in DOMAIN c.history_ /\ Len(c.history_[key]) >= c.k_ - 1

\* the test that sends put on to promotion
ReachedK(c, key) == key \in DOMAIN c.history_ /\ Len(c.history_[key]) >= c.k_

LruKFull(c) == Cardinality(DOMAIN c.cache_) >= c.capacity_

\* faulty variant: a promoted record that is evicted goes back to the history table
LruKPutOpDemotesVictim(c, key, value, now, history_order, cache_order) ==
    IF key \in DOMAIN c.cache_
    THEN [c |-> RecordCacheAccess([c EXCEPT !.cache_[key].value = value], key, now), threw |-> "none"]
    ELSE LET c1 == RecordHistoryAccess(c, key, now)
         IN  IF ReachedK(c1, key)
             THEN IF LruKFull(c1)
                  THEN LET v == FindVictimKey(c1, history_order, cache_order)
                       IN  IF v.threw # "none" THEN [c |-> c1, threw |-> v.threw]
                           ELSE IF v.key \in DOMAIN c1.cache_
                           THEN PromoteToCache(
                                    [c1 EXCEPT !.cache_ = MapErase(c1.cache_, v.key),
                                               !.history_ = MapPut(c1.history_, v.key,
                                                                   <<Back(c1.cache_[v.key].access_times)>>)],
                                    key, value)
                           ELSE PromoteToCache([c1 EXCEPT !.history_ = MapErase(c1.history_, v.key)], key, value)
                  ELSE PromoteToCache(c1, key, value)
             ELSE [c |-> c1, threw |-> "none"]

\* put: the cache afterwards and whether it threw
LruKPutOp(c, key, value, now, history_order, cache_order) ==
    IF key \in DOMAIN c.cache_
    THEN [c |-> RecordCacheAccess([c EXCEPT !.cache_[key].value = value], key, now), threw |-> "none"]
    ELSE LET c1 == RecordHistoryAccess(c, key, now)
         IN  IF ReachedK(c1, key)
             THEN IF LruKFull(c1)
                  THEN LET v == FindVictimKey(c1, history_order, cache_order)
                       IN  IF v.threw # "none" THEN [c |-> c1, threw |-> v.threw]
                           ELSE IF v.key \in DOMAIN c1.cache_
                           THEN PromoteToCache([c1 EXCEPT !.cache_ = MapErase(c1.cache_, v.key)], key, value)
                           ELSE PromoteToCache([c1 EXCEPT !.history_ = MapErase(c1.history_, v.key)], key, value)
                  ELSE PromoteToCache(c1, key, value)
             ELSE [c |-> c1, threw |-> "none"]

\* faulty variant: a get that misses records the access in the history table
LruKGetOpRecordsMiss(c, key, now) ==
    IF key \in DOMAIN c.cache_
    THEN LET c1 == RecordCacheAccess(c, key, now)
         IN  [c |-> c1, threw |-> "none", value |-> c1.cache_[key].value]
    ELSE [c |-> RecordHistoryAccess(c, key, now), threw |-> "out_of_range", value |-> NoValue]

\* faulty variant: a get that hits records no access
LruKGetOpKeepsTimes(c, key, now) ==
    IF key \in DOMAIN c.cache_
    THEN [c |-> c, threw |-> "none", value |-> c.cache_[key].value]
    ELSE [c |-> c, threw |-> "out_of_range", value |-> NoValue]

\* get: the cache afterwards, whether it threw, and the value returned
LruKGetOp(c, key, now) ==
    IF key \in DOMAIN c.cache_
    THEN LET c1 == RecordCacheAccess(c, key, now)
         IN  [c |-> c1, threw |-> "none", value |-> c1.cache_[key].value]
    ELSE [c |-> c, threw |-> "out_of_range", value |-> NoValue]

LruKContainsOp(c, key) == key \in DOMAIN c.cache_

LruKSize(c) == Cardinality(DOMAIN c.cache_)

LruKEmpty(c) == DOMAIN c.cache_ = {}

\* the const member functions contains(key), size(), empty() and capacity(): the cache
\* afterwards and what each returns
LruKConstCalls(c, key) ==
    [c        |-> c,
     contains |-> LruKContainsOp(c, key),
     size     |-> LruKSize(c),
     empty    |-> LruKEmpty(c),
     capacity |-> c.capacity_]

\* faulty variant: clear forgets the history table
LruKClearOpKeepsHistory(c) == [c EXCEPT !.cache_ = EmptyMap]

LruKClearOp(c) == [c EXCEPT !.cache_ = EmptyMap, !.history_ = EmptyMap]

GetHistoryAccessCount(c, key) == IF key \notin DOMAIN c.history_ THEN 0 ELSE Len(c.history_[key])

GetCacheAccessCount(c, key) == IF key \notin DOMAIN c.cache_ THEN 0 ELSE Len(c.cache_[key].access_times)

\* faulty variant: the name is built from the capacity
LruKGetPolicyNameOfCapacity(c) == "LRU-" \o ToString(c.capacity_)

\* getPolicyName: "LRU-" + std::to_string(k_)
LruKGetPolicyName(c) == "LRU-" \o ToString(c.k_)

\* ------------------------------------------------------------ state
VARIABLES
    policy,     \* the engine the caller constructed and drives
    lru,        \* the LruCache instance
    fifo,       \* the FifoCache instance
    lfu,        \* the LfuCache instance
    lruk,       \* the LruKCache instance
    clock,      \* the latest reading of steady_clock
    ret,        \* the last call and what it returned
    recency,    \* history variable: the visible keys, most recently used first
    arrival,    \* history variable: the visible keys, earliest insertion first
    written,    \* history variable: visible key -> the value of the latest put on it
    putsSince,  \* history variable (LRU-K): puts on a key since it was last in neither table
    removed,    \* history variable: the keys the last call removed (LRU-K: from either table)
    pc,         \* per thread: "idle", or "relink" between the two locks of get
    local,      \* per thread: the key and the node pointer get holds
    fault       \* "none", or what undefined behaviour ended the run

engineVars == <<lru, fifo, lfu, lruk, clock>>
historyVars == <<recency, arrival, written, putsSince, removed>>
threadVars == <<pc, local, fault>>
vars == <<policy, lru, fifo, lfu, lruk, clock, ret, recency, arrival, written, putsSince, removed,
          pc, local, fault>>

Returned(op, key, ok, value) == [op |-> op, key |-> key, ok |-> ok, value |-> value]

\* the keys for which contains() is true
Visible ==
    CASE policy = "LRU"   -> DOMAIN lru.cache_
      [] policy = "FIFO"  -> DOMAIN fifo.cache_
      [] policy = "LFU"   -> DOMAIN lfu.cache_
      [] policy = "LRU_K" -> DOMAIN lruk.cache_

Size ==
    CASE policy = "LRU"   -> lru.size_
      [] policy = "FIFO"  -> fifo.size_
      [] policy = "LFU"   -> LfuSize(lfu)
      [] policy = "LRU_K" -> LruKSize(lruk)

Capacity ==
    CASE policy = "LRU"   -> lru.capacity_
      [] policy = "FIFO"  -> fifo.capacity_
      [] policy = "LFU"   -> lfu.capacity_
      [] policy = "LRU_K" -> lruk.capacity_

Empty ==
    CASE policy = "LRU"   -> LruEmpty(lru)
      [] policy = "FIFO"  -> FifoEmpty(fifo)
      [] policy = "LFU"   -> LfuEmpty(lfu)
      [] policy = "LRU_K" -> LruKEmpty(lruk)

\* what get(key) would do in this state
GetResult(key) ==
    CASE policy = "LRU"   -> LruGetOp(lru, key)
      [] policy = "FIFO"  -> FifoGetOp(fifo, key)
      [] policy = "LFU"   -> LfuGetOp(lfu, key)
      [] policy = "LRU_K" -> LruKGetOp(lruk, key, clock)

\* the engine the caller drives
Engine ==
    CASE policy = "LRU"   -> lru
      [] policy = "FIFO"  -> fifo
      [] policy = "LFU"   -> lfu
      [] policy = "LRU_K" -> lruk

\* contains(key), size(), empty() and capacity() on the engine `c` of the caller's policy
ConstCalls(c, key) ==
    CASE policy = "LRU"   -> LruConstCalls(c, key)
      [] policy = "FIFO"  -> FifoConstCalls(c, key)
      [] policy = "LFU"   -> LfuConstCalls(c, key)
      [] policy = "LRU_K" -> LruKConstCalls(c, key)

Remove(seq, k) == SelectSeq(seq, LAMBDA x : x # k)
Restrict(seq, S) == SelectSeq(seq, LAMBDA x : x \in S)
RestrictMap(m, S) == [x \in DOMAIN m \cap S |-> m[x]]

\* The history variables after a call: `before` and `after` are the visible keys
\* before and after it.
Track(op, key, value, before, after) ==
    /\ recency' = Restrict(IF op = "put" \/ (op = "get" /\ key \in before)
                           THEN <<key>> \o Remove(recency, key)
                           ELSE recency, after)
    /\ arrival' = Restrict(IF op = "put" /\ key \notin before
                           THEN Append(Remove(arrival, key), key)
                           ELSE arrival, after)
    /\ written' = RestrictMap(IF op = "put" THEN MapPut(written, key, value) ELSE written, after)
    /\ removed' = before \ after
    /\ UNCHANGED putsSince

\* The same for LRU-K, where recency and arrival are not followed; `tracked` are the
\* keys in either table after the call.
TrackLruK(op, key, value, after, tracked) ==
    /\ removed' = (DOMAIN lruk.cache_ \cup DOMAIN lruk.history_) \ tracked
    /\ written' = RestrictMap(IF op = "put" THEN MapPut(written, key, value) ELSE written, after)
    /\ UNCHANGED <<recency, arrival>>
    /\ putsSince' = [x \in MoreKeys |->
                       IF x \notin tracked THEN 0
                       ELSE IF op = "put" /\ x = key
                       THEN (IF putsSince[x] < lruk.k_ THEN putsSince[x] + 1 ELSE putsSince[x])
                       ELSE putsSince[x]]

Init ==
    /\ policy \in PolicyType
    /\ \E capacity \in 1..MaxCap, k \in 1..MaxK :
          /\ lru = LruCacheCtor(capacity).c
          /\ fifo = FifoCacheCtor(capacity).c
          /\ lfu = LfuCacheCtor(capacity).c
          /\ lruk = LruKCacheCtor(capacity, IF policy = "LRU_K" THEN k ELSE 2).c
    /\ clock = Epoch
    /\ ret = Returned("new", NoKey, TRUE, NoValue)
    /\ recency = <<>>
    /\ arrival = <<>>
    /\ written = EmptyMap
    /\ putsSince = [x \in MoreKeys |-> 0]
    /\ removed = {}
    /\ pc = [t \in Threads |-> "idle"]
    /\ local = [t \in Threads |-> [key |-> NoKey, node |-> Null]]
    /\ fault = "none"

\* the threads that have looked `key` up in get and not yet taken the exclusive lock
Pending(key) == Cardinality({t \in Threads : pc[t] = "relink" /\ local[t].key = key})

\* ------------------------------------------------------------ calls (one caller)
\* Each Call* is a whole call; the thread variables are left to the specification.

CallLruGet(key) ==
    /\ policy = "LRU"
    /\ LET r == LruGetOp(lru, key)
       IN  /\ lru' = r.c
           /\ ret' = Returned("get", key, r.threw = "none", r.value)
    /\ Track("get", key, NoValue, DOMAIN lru.cache_, DOMAIN lru'.cache_)
    /\ UNCHANGED <<policy, fifo, lfu, lruk, clock>>

CallLruPut(key, value) ==
    /\ policy = "LRU"
    /\ lru' = LruPutOp(lru, key, value)
    /\ ret' = Returned("put", key, TRUE, NoValue)
    /\ Track("put", key, value, DOMAIN lru.cache_, DOMAIN lru'.cache_)
    /\ UNCHANGED <<policy, fifo, lfu, lruk, clock>>

CallLruContains(key) ==
    /\ policy = "LRU"
    /\ lru' = LruConstCalls(lru, key).c
    /\ UNCHANGED <<policy, fifo, lfu, lruk, clock, historyVars, ret>>

\* size(), empty() and capacity() take no key
CallLruSize ==
    /\ policy = "LRU"
    /\ lru' = LruConstCalls(lru, NoKey).c
    /\ UNCHANGED <<policy, fifo, lfu, lruk, clock, historyVars, ret>>

CallLruClear ==
    /\ policy = "LRU"
    /\ lru' = LruClearOp(lru)
    /\ ret' = Returned("clear", NoKey, TRUE, NoValue)
    /\ Track("clear", NoKey, NoValue, DOMAIN lru.cache_, DOMAIN lru'.cache_)
    /\ UNCHANGED <<policy, fifo, lfu, lruk, clock>>

CallFifoGet(key) ==
    /\ policy = "FIFO"
    /\ LET r == FifoGetOp(fifo, key)
       IN  /\ fifo' = r.c
           /\ ret' = Returned("get", key, r.threw = "none", r.value)
    /\ Track("get", key, NoValue, DOMAIN fifo.cache_, DOMAIN fifo'.cache_)
    /\ UNCHANGED <<policy, lru, lfu, lruk, clock>>

CallFifoPut(key, value) ==
    /\ policy = "FIFO"
    /\ fifo' = FifoPutOp(fifo, key, value)
    /\ ret' = Returned("put", key, TRUE, NoValue)
    /\ Track("put", key, value, DOMAIN fifo.cache_, DOMAIN fifo'.cache_)
    /\ UNCHANGED <<policy, lru, lfu, lruk, clock>>

CallFifoContains(key) ==
    /\ policy = "FIFO"
    /\ fifo' = FifoConstCalls(fifo, key).c
    /\ UNCHANGED <<policy, lru, lfu, lruk, clock, historyVars, ret>>

\* size(), empty() and capacity() take no key
CallFifoSize ==
    /\ policy = "FIFO"
    /\ fifo' = FifoConstCalls(fifo, NoKey).c
    /\ UNCHANGED <<policy, lru, lfu, lruk, clock, historyVars, ret>>

CallFifoClear ==
    /\ policy = "FIFO"
    /\ fifo' = FifoClearOp(fifo)
    /\ ret' = Returned("clear", NoKey, TRUE, NoValue)
    /\ Track("clear", NoKey, NoValue, DOMAIN fifo.cache_, DOMAIN fifo'.cache_)
    /\ UNCHANGED <<policy, lru, lfu, lruk, clock>>

\* get, by a caller that lets no frequency pass `limit`
LfuGetWithin(key, limit) ==
    /\ policy = "LFU"
    /\ GetFrequency(lfu, key) + Pending(key) < limit
    /\ LET r == LfuGetOp(lfu, key)
       IN  /\ lfu' = r.c
           /\ ret' = Returned("get", key, r.threw = "none", r.value)
    /\ Track("get", key, NoValue, DOMAIN lfu.cache_, DOMAIN lfu'.cache_)
    /\ UNCHANGED <<policy, lru, fifo, lruk, clock>>

CallLfuGet(key) == LfuGetWithin(key, MaxFreq)

\* put, by a caller that lets no frequency pass `limit`
LfuPutWithin(key, value, limit) ==
    /\ policy = "LFU"
    /\ GetFrequency(lfu, key) + Pending(key) < limit
    /\ lfu' = LfuPutOp(lfu, key, value)
    /\ ret' = Returned("put", key, TRUE, NoValue)
    /\ Track("put", key, value, DOMAIN lfu.cache_, DOMAIN lfu'.cache_)
    /\ UNCHANGED <<policy, lru, fifo, lruk, clock>>

CallLfuPut(key, value) == LfuPutWithin(key, value, MaxFreq)

CallLfuContains(key) ==
    /\ policy = "LFU"
    /\ lfu' = LfuConstCalls(lfu, key).c
    /\ UNCHANGED <<policy, lru, fifo, lruk, clock, historyVars, ret>>

\* size(), empty() and capacity() take no key
CallLfuSize ==
    /\ policy = "LFU"
    /\ lfu' = LfuConstCalls(lfu, NoKey).c
    /\ UNCHANGED <<policy, lru, fifo, lruk, clock, historyVars, ret>>

CallLfuClear ==
    /\ policy = "LFU"
    /\ lfu' = LfuClearOp(lfu)
    /\ ret' = Returned("clear", NoKey, TRUE, NoValue)
    /\ Track("clear", NoKey, NoValue, DOMAIN lfu.cache_, DOMAIN lfu'.cache_)
    /\ UNCHANGED <<policy, lru, fifo, lruk, clock>>

\* steady_clock::now(): monotonic, so never less than the reading before
Now == {t \in {clock, clock + 1} : t <= MaxTime}

CallLruKGet(key) ==
    /\ policy = "LRU_K"
    /\ \E now \in (IF key \in DOMAIN lruk.cache_ THEN Now ELSE {clock}) :
          LET r == LruKGetOp(lruk, key, now)
          IN  /\ clock' = now
              /\ lruk' = r.c
              /\ ret' = Returned("get", key, r.threw = "none", r.value)
    /\ TrackLruK("get", key, NoValue, DOMAIN lruk'.cache_, DOMAIN lruk'.cache_ \cup DOMAIN lruk'.history_)
    /\ UNCHANGED <<policy, lru, fifo, lfu>>

\* whether put(key) reaches findVictimKey
Evicts(c, key) ==
    /\ key \notin DOMAIN c.cache_
    /\ GetHistoryAccessCount(c, key) + 1 >= c.k_
    /\ Cardinality(DOMAIN c.cache_) >= c.capacity_

CallLruKPut(key, value) ==
    /\ policy = "LRU_K"
    /\ \E now \in Now :
       \E r \in {LruKPutOp(lruk, key, value, now, history_order, cache_order) :
                   history_order \in (IF Evicts(lruk, key)
                                      THEN IterationOrders(DOMAIN lruk.history_ \cup {key}) ELSE {<<>>}),
                   cache_order \in (IF Evicts(lruk, key)
                                    THEN IterationOrders(DOMAIN lruk.cache_) ELSE {<<>>})} :
          /\ clock' = now
          /\ lruk' = r.c
          /\ ret' = Returned("put", key, r.threw = "none", NoValue)
    /\ TrackLruK("put", key, value, DOMAIN lruk'.cache_, DOMAIN lruk'.cache_ \cup DOMAIN lruk'.history_)
    /\ UNCHANGED <<policy, lru, fifo, lfu>>

CallLruKContains(key) ==
    /\ policy = "LRU_K"
    /\ lruk' = LruKConstCalls(lruk, key).c
    /\ UNCHANGED <<policy, lru, fifo, lfu, clock, historyVars, ret>>

\* size(), empty() and capacity() take no key
CallLruKSize ==
    /\ policy = "LRU_K"
    /\ lruk' = LruKConstCalls(lruk, NoKey).c
    /\ UNCHANGED <<policy, lru, fifo, lfu, clock, historyVars, ret>>

CallLruKClear ==
    /\ policy = "LRU_K"
    /\ lruk' = LruKClearOp(lruk)
    /\ ret' = Returned("clear", NoKey, TRUE, NoValue)
    /\ TrackLruK("clear", NoKey, NoValue, DOMAIN lruk'.cache_, DOMAIN lruk'.cache_ \cup DOMAIN lruk'.history_)
    /\ UNCHANGED <<policy, lru, fifo, lfu, clock>>

\* ------------------------------------------------------------ LRU beside LRU-K
\* one caller makes every call on an LruCache and on an LruKCache with K = 1 of the same
\* capacity; each reading of steady_clock is later than the one before
InitSideBySide ==
    /\ policy = "LRU+LRU_K"
    /\ \E capacity \in 1..MaxCap :
          /\ lru = LruCacheCtor(capacity).c
          /\ fifo = FifoCacheCtor(capacity).c
          /\ lfu = LfuCacheCtor(capacity).c
          /\ lruk = LruKCacheCtor(capacity, 1).c
    /\ clock = Epoch
    /\ ret = [op |-> "new", key |-> NoKey, lru |-> Returned("new", NoKey, TRUE, NoValue),
                                         lruk |-> Returned("new", NoKey, TRUE, NoValue)]
    /\ recency = <<>>
    /\ arrival = <<>>
    /\ written = EmptyMap
    /\ putsSince = [x \in MoreKeys |-> 0]
    /\ removed = {}
    /\ pc = [t \in Threads |-> "idle"]
    /\ local = [t \in Threads |-> [key |-> NoKey, node |-> Null]]
    /\ fault = "none"

BothGet ==
    \E key \in Keys :
       /\ policy = "LRU+LRU_K" /\ clock < MaxTicks
       /\ LET a == LruGetOp(lru, key)
              b == LruKGetOp(lruk, key, clock + 1)
          IN  /\ lru' = a.c
              /\ lruk' = b.c
              /\ ret' = [op |-> "get", key |-> key,
                         lru |-> Returned("get", key, a.threw = "none", a.value),
                         lruk |-> Returned("get", key, b.threw = "none", b.value)]
       /\ clock' = clock + 1
       /\ UNCHANGED <<policy, fifo, lfu, historyVars, threadVars>>

BothPut ==
    \E key \in Keys, value \in Values :
       /\ policy = "LRU+LRU_K" /\ clock < MaxTicks
       /\ lru' = LruPutOp(lru, key, value)
       /\ \E b \in {LruKPutOp(lruk, key, value, clock + 1, history_order, cache_order) :
                       history_order \in (IF Evicts(lruk, key)
                                          THEN IterationOrders(DOMAIN lruk.history_ \cup {key}) ELSE {<<>>}),
                       cache_order \in (IF Evicts(lruk, key)
                                        THEN IterationOrders(DOMAIN lruk.cache_) ELSE {<<>>})} :
             /\ lruk' = b.c
             /\ ret' = [op |-> "put", key |-> key,
                        lru |-> Returned("put", key, TRUE, NoValue),
                        lruk |-> Returned("put", key, b.threw = "none", NoValue)]
       /\ clock' = clock + 1
       /\ UNCHANGED <<policy, fifo, lfu, historyVars, threadVars>>

BothContains ==
    \E key \in Keys :
       /\ policy = "LRU+LRU_K"
       /\ lru' = LruConstCalls(lru, key).c
       /\ lruk' = LruKConstCalls(lruk, key).c
       /\ UNCHANGED <<policy, fifo, lfu, clock, ret, historyVars, threadVars>>

BothSize ==
    /\ policy = "LRU+LRU_K"
    /\ lru' = LruConstCalls(lru, NoKey).c
    /\ lruk' = LruKConstCalls(lruk, NoKey).c
    /\ UNCHANGED <<policy, fifo, lfu, clock, ret, historyVars, threadVars>>

BothClear ==
    /\ policy = "LRU+LRU_K"
    /\ lru' = LruClearOp(lru)
    /\ lruk' = LruKClearOp(lruk)
    /\ ret' = [op |-> "clear", key |-> NoKey, lru |-> Returned("clear", NoKey, TRUE, NoValue),
                                             lruk |-> Returned("clear", NoKey, TRUE, NoValue)]
    /\ UNCHANGED <<policy, fifo, lfu, clock, historyVars, threadVars>>

NextSideBySide == BothGet \/ BothPut \/ BothContains \/ BothSize \/ BothClear
SpecSideBySide == InitSideBySide /\ [][NextSideBySide]_vars

\* ------------------------------------------------------------ one caller
LruGet == \E key \in Keys : CallLruGet(key) /\ UNCHANGED threadVars
LruPut == \E key \in Keys, value \in Values : CallLruPut(key, value) /\ UNCHANGED threadVars
LruContains == \E key \in Keys : CallLruContains(key) /\ UNCHANGED threadVars
LruSize == CallLruSize /\ UNCHANGED threadVars
LruClear == CallLruClear /\ UNCHANGED threadVars
FifoGet == \E key \in Keys : CallFifoGet(key) /\ UNCHANGED threadVars
FifoPut == \E key \in Keys, value \in Values : CallFifoPut(key, value) /\ UNCHANGED threadVars
FifoContains == \E key \in Keys : CallFifoContains(key) /\ UNCHANGED threadVars
FifoSize == CallFifoSize /\ UNCHANGED threadVars
FifoClear == CallFifoClear /\ UNCHANGED threadVars
LfuGet == \E key \in Keys : CallLfuGet(key) /\ UNCHANGED threadVars
LfuPut == \E key \in Keys, value \in Values : CallLfuPut(key, value) /\ UNCHANGED threadVars
LfuContains == \E key \in Keys : CallLfuContains(key) /\ UNCHANGED threadVars
LfuSizeCall == CallLfuSize /\ UNCHANGED threadVars
LfuClear == CallLfuClear /\ UNCHANGED threadVars
LruKGet == \E key \in Keys : CallLruKGet(key) /\ UNCHANGED threadVars
LruKPut == \E key \in Keys, value \in Values : CallLruKPut(key, value) /\ UNCHANGED threadVars
LruKContains == \E key \in Keys : CallLruKContains(key) /\ UNCHANGED threadVars
LruKSizeCall == CallLruKSize /\ UNCHANGED threadVars
LruKClear == CallLruKClear /\ UNCHANGED threadVars
\* the same calls by a caller that uses one key more and a single value
LruKGetMoreKeys == \E key \in MoreKeys : CallLruKGet(key) /\ UNCHANGED threadVars
LruKPutMoreKeys == \E key \in MoreKeys : CallLruKPut(key, 1) /\ UNCHANGED threadVars
LruKContainsMoreKeys == \E key \in MoreKeys : CallLruKContains(key) /\ UNCHANGED threadVars

NextClassic ==
    \/ LruGet \/ LruPut \/ LruContains \/ LruSize \/ LruClear
    \/ FifoGet \/ FifoPut \/ FifoContains \/ FifoSize \/ FifoClear
    \/ LfuGet \/ LfuPut \/ LfuContains \/ LfuSizeCall \/ LfuClear

NextLruK == LruKGet \/ LruKPut \/ LruKContains \/ LruKSizeCall \/ LruKClear

NextLruKMoreKeys ==
    LruKGetMoreKeys \/ LruKPutMoreKeys \/ LruKContainsMoreKeys \/ LruKSizeCall \/ LruKClear

Next == NextClassic \/ NextLruK

\* FIFO, LRU and LFU with one caller
InitClassic == Init /\ policy # "LRU_K"
Spec == InitClassic /\ [][NextClassic]_vars

\* LRU-K with one caller
InitLruK == Init /\ policy = "LRU_K"
SpecLruK == InitLruK /\ [][NextLruK]_vars

\* LRU-K with one caller that uses one key more and a single value
SpecLruKMoreKeys == InitLruK /\ [][NextLruKMoreKeys]_vars

\* any of the four engines with one caller
SpecAll == Init /\ [][Next]_vars

\* LFU with one caller that puts a single value and lets frequencies grow one step further
LfuGetDeep == \E key \in Keys : LfuGetWithin(key, MaxFreq + 1) /\ UNCHANGED threadVars
LfuPutDeep == \E key \in Keys : LfuPutWithin(key, 1, MaxFreq + 1) /\ UNCHANGED threadVars
NextLfuDeep == LfuGetDeep \/ LfuPutDeep \/ LfuContains \/ LfuSizeCall \/ LfuClear
InitLfu == Init /\ policy = "LFU"
SpecLfuDeep == InitLfu /\ [][NextLfuDeep]_vars

\* ------------------------------------------------------------ construction
\* the int arguments a caller may pass for a parameter whose largest value here is `max`
IntArgs(max) == (-1)..max

\* before any constructor has run there is no engine
InitCreate ==
    /\ policy = "none"
    /\ lru = Null /\ fifo = Null /\ lfu = Null /\ lruk = Null
    /\ clock = Epoch
    /\ ret = Returned("none", NoKey, TRUE, NoValue)
    /\ recency = <<>>
    /\ arrival = <<>>
    /\ written = EmptyMap
    /\ putsSince = [x \in MoreKeys |-> 0]
    /\ removed = {}
    /\ pc = [t \in Threads |-> "idle"]
    /\ local = [t \in Threads |-> [key |-> NoKey, node |-> Null]]
    /\ fault = "none"

\* what the constructor of the engine `type` does with these arguments
Construct(type, capacity, k) ==
    CASE type = "LRU"   -> LruCacheCtor(capacity)
      [] type = "FIFO"  -> FifoCacheCtor(capacity)
      [] type = "LFU"   -> LfuCacheCtor(capacity)
      [] type = "LRU_K" -> LruKCacheCtor(capacity, k)

\* The caller constructs an engine. A constructor that throws leaves no object: the
\* caller has what it had before, and may try again.
Create ==
    /\ policy = "none"
    /\ \E type \in PolicyType, capacity \in IntArgs(MaxCap) :
       \E k \in (IF type = "LRU_K" THEN IntArgs(MaxK) ELSE {NoValue}) :
          LET r == Construct(type, capacity, k)
          IN  /\ policy' = IF r.threw = "none" THEN type ELSE "none"
              /\ lru' = IF type = "LRU" THEN r.c ELSE lru
              /\ fifo' = IF type = "FIFO" THEN r.c ELSE fifo
              /\ lfu' = IF type = "LFU" THEN r.c ELSE lfu
              /\ lruk' = IF type = "LRU_K" THEN r.c ELSE lruk
              /\ ret' = [op |-> "new", key |-> NoKey, ok |-> r.threw = "none", value |-> NoValue,
                         type |-> type, capacity |-> capacity, k |-> k, threw |-> r.threw]
    /\ UNCHANGED <<clock, historyVars, threadVars>>

\* getPolicyName of the engine the caller drives
GetPolicyName ==
    CASE policy = "LRU"   -> "LRU"
      [] policy = "FIFO"  -> "FIFO"
      [] policy = "LFU"   -> "LFU"
      [] policy = "LRU_K" -> LruKGetPolicyName(lruk)

CallGetPolicyName ==
    /\ policy \in PolicyType
    /\ ret' = [op |-> "getPolicyName", key |-> NoKey, ok |-> TRUE, value |-> NoValue,
               name |-> GetPolicyName]
    /\ UNCHANGED <<policy, engineVars, historyVars, threadVars>>

NextCreate == Create \/ CallGetPolicyName \/ Next

\* a caller that constructs an engine, of any of the four kinds, and then drives it
SpecCreate == InitCreate /\ [][NextCreate]_vars

\* ------------------------------------------------------------ several callers
\* LruCache::get and LfuCache::get look the key up under the shared lock, release it, and
\* take the exclusive lock for the relink: two steps, with the calls of other threads
\* between them. Every other call holds one lock from its first line to its last and is
\* one step. A thread that has run into undefined behaviour ends the run.
Idle(t) == fault = "none" /\ pc[t] = "idle"

Finish(t) ==
    /\ pc' = [pc EXCEPT ![t] = "idle"]
    /\ local' = [local EXCEPT ![t] = [key |-> NoKey, node |-> Null]]

\* get, from the shared lock to read_lock.unlock()
LruGetLookup(t, key) ==
    /\ policy = "LRU" /\ Idle(t)
    /\ IF key \notin DOMAIN lru.cache_
       THEN /\ ret' = Returned("get", key, FALSE, NoValue)
            /\ Track("get", key, NoValue, DOMAIN lru.cache_, DOMAIN lru.cache_)
            /\ UNCHANGED <<pc, local>>
       ELSE /\ pc' = [pc EXCEPT ![t] = "relink"]
            /\ local' = [local EXCEPT ![t] = [key |-> key, node |-> lru.cache_[key]]]
            /\ UNCHANGED <<ret, historyVars>>
    /\ UNCHANGED <<policy, engineVars, fault>>

\* get, from the exclusive lock to the return. moveToHead(node) on a node that has been
\* deleted since the lookup is undefined: the process is killed, or the freed memory is
\* read as some pointers and some value and the list is relinked through them.
LruGetRelink(t) ==
    /\ policy = "LRU" /\ fault = "none" /\ pc[t] = "relink"
    /\ LET node == local[t].node
           key == local[t].key
       IN  IF node \in DOMAIN lru.mem
           THEN /\ lru' = [lru EXCEPT !.mem = LruMoveToHead(lru.mem, node)]
                /\ ret' = Returned("get", key, TRUE, lru.mem[node].value)
                /\ Track("get", key, NoValue, DOMAIN lru.cache_, DOMAIN lru.cache_)
                /\ UNCHANGED fault
           ELSE \/ /\ fault' = "segfault"
                   /\ UNCHANGED <<lru, ret, historyVars>>
                \/ \E prev \in DOMAIN lru.mem, next \in DOMAIN lru.mem, value \in Values :
                      /\ fault' = "use_after_free"
                      /\ lru' = [lru EXCEPT !.mem = LruMoveToHead(
                                     node :> [key |-> key, value |-> value, prev |-> prev, next |-> next]
                                     @@ lru.mem, node)]
                      /\ ret' = Returned("get", key, TRUE, value)
                      /\ UNCHANGED historyVars
    /\ Finish(t)
    /\ UNCHANGED <<policy, fifo, lfu, lruk, clock>>

\* get, from the shared lock to read_lock.unlock()
LfuGetLookupWithin(t, key, limit) ==
    /\ policy = "LFU" /\ Idle(t)
    /\ GetFrequency(lfu, key) + Pending(key) < limit
    /\ IF key \notin DOMAIN lfu.cache_
       THEN /\ ret' = Returned("get", key, FALSE, NoValue)
            /\ Track("get", key, NoValue, DOMAIN lfu.cache_, DOMAIN lfu.cache_)
            /\ UNCHANGED <<pc, local>>
       ELSE /\ pc' = [pc EXCEPT ![t] = "relink"]
            /\ local' = [local EXCEPT ![t] = [key |-> key, node |-> lfu.cache_[key]]]
            /\ UNCHANGED <<ret, historyVars>>
    /\ UNCHANGED <<policy, engineVars, fault>>

LfuGetLookup(t, key) == LfuGetLookupWithin(t, key, MaxFreq)

\* get, from the exclusive lock to the return. updateFrequency(node) on a node that has
\* been deleted since the lookup is undefined, as in LruGetRelink; the frequency too is
\* read from the freed memory.
LfuGetRelink(t) ==
    /\ policy = "LFU" /\ fault = "none" /\ pc[t] = "relink"
    /\ LET node == local[t].node
           key == local[t].key
       IN  IF node \in DOMAIN lfu.mem
           THEN /\ lfu' = UpdateFrequency(lfu, node)
                /\ ret' = Returned("get", key, TRUE, lfu.mem[node].value)
                /\ Track("get", key, NoValue, DOMAIN lfu.cache_, DOMAIN lfu.cache_)
                /\ UNCHANGED fault
           ELSE \/ /\ fault' = "segfault"
                   /\ UNCHANGED <<lfu, ret, historyVars>>
                \/ \E prev \in DOMAIN lfu.mem, next \in DOMAIN lfu.mem, value \in Values,
                      frequency \in 0..(MaxFreq - 1) :
                      /\ fault' = "use_after_free"
                      /\ lfu' = UpdateFrequency(
                                    [lfu EXCEPT !.mem = node :> [key |-> key, value |-> value,
                                                                 frequency |-> frequency,
                                                                 prev |-> prev, next |-> next]
                                                        @@ lfu.mem], node)
                      /\ ret' = Returned("get", key, TRUE, value)
                      /\ UNCHANGED historyVars
    /\ Finish(t)
    /\ UNCHANGED <<policy, lru, fifo, lruk, clock>>

ThreadLruGetLookup == \E t \in Threads, key \in Keys : LruGetLookup(t, key)
ThreadLruGetRelink == \E t \in Threads : LruGetRelink(t)
ThreadLruPut ==
    \E t \in Threads, key \in Keys, value \in Values :
       Idle(t) /\ CallLruPut(key, value) /\ UNCHANGED threadVars
ThreadLruContains == \E t \in Threads, key \in Keys : Idle(t) /\ CallLruContains(key) /\ UNCHANGED threadVars
ThreadLruSize == \E t \in Threads : Idle(t) /\ CallLruSize /\ UNCHANGED threadVars
ThreadLruClear == \E t \in Threads : Idle(t) /\ CallLruClear /\ UNCHANGED threadVars
ThreadLfuGetLookup == \E t \in Threads, key \in Keys : LfuGetLookup(t, key)
ThreadLfuGetRelink == \E t \in Threads : LfuGetRelink(t)
ThreadLfuPut ==
    \E t \in Threads, key \in Keys, value \in Values :
       Idle(t) /\ CallLfuPut(key, value) /\ UNCHANGED threadVars
ThreadLfuContains == \E t \in Threads, key \in Keys : Idle(t) /\ CallLfuContains(key) /\ UNCHANGED threadVars
ThreadLfuSize == \E t \in Threads : Idle(t) /\ CallLfuSize /\ UNCHANGED threadVars
ThreadLfuClear == \E t \in Threads : Idle(t) /\ CallLfuClear /\ UNCHANGED threadVars

NextThreads ==
    \/ ThreadLruGetLookup \/ ThreadLruGetRelink \/ ThreadLruPut
    \/ ThreadLruContains \/ ThreadLruSize \/ ThreadLruClear
    \/ ThreadLfuGetLookup \/ ThreadLfuGetRelink \/ ThreadLfuPut
    \/ ThreadLfuContains \/ ThreadLfuSize \/ ThreadLfuClear

\* LRU and LFU with several callers
InitThreads == Init /\ policy \in {"LRU", "LFU"}
SpecThreads == InitThreads /\ [][NextThreads]_vars

\* ------------------------------------------------------------ callers of the thread tests
\* The thread tests wrap every call in a lock on a std::shared_mutex of their own: put and
\* clear in a unique_lock, get, contains and size in a shared_lock. A thread between the
\* two steps of get holds the shared lock, so the unique_lock is granted only when no
\* thread is inside a get; put and clear are one step and hold it for no longer.
\* faulty variant: the unique_lock of the tests is granted while readers hold the mutex
ExternalUniqueLockIgnoresReaders(t) == Idle(t)

ExternalUniqueLock(t) == Idle(t) /\ \A u \in Threads : pc[u] = "idle"

TestLruPut ==
    \E t \in Threads, key \in Keys, value \in Values :
       ExternalUniqueLock(t) /\ CallLruPut(key, value) /\ UNCHANGED threadVars
TestLruClear == \E t \in Threads : ExternalUniqueLock(t) /\ CallLruClear /\ UNCHANGED threadVars
\* the readers let frequencies grow one step further, so that two of them meet on one key
TestLfuGetLookup == \E t \in Threads, key \in Keys : LfuGetLookupWithin(t, key, MaxFreq + 1)
TestLfuPut ==
    \E t \in Threads, key \in Keys, value \in Values :
       ExternalUniqueLock(t) /\ CallLfuPut(key, value) /\ UNCHANGED threadVars
TestLfuClear == \E t \in Threads : ExternalUniqueLock(t) /\ CallLfuClear /\ UNCHANGED threadVars

NextTests ==
    \/ ThreadLruGetLookup \/ ThreadLruGetRelink \/ TestLruPut
    \/ ThreadLruContains \/ ThreadLruSize \/ TestLruClear
    \/ TestLfuGetLookup \/ ThreadLfuGetRelink \/ TestLfuPut
    \/ ThreadLfuContains \/ ThreadLfuSize \/ TestLfuClear

SpecTests == InitThreads /\ [][NextTests]_vars

\* ------------------------------------------------------------ the mutex of one cache
\* Every call in steps: the constructor of its lock waits for mutex_ ("lock"), the body
\* looks the key up ("find") and goes on from what it found ("act"), the destructor of the
\* lock releases mutex_ at the return. get of LruCache and LfuCache unlocks after the
\* lookup, waits for mutex_ again ("relock") and relinks ("relink"). mutex_ is granted in
\* the order of the requests: a thread's ticket is its place among the waiting threads.
LockKeys == 1..(MaxKey - 1)
Calls == {"get", "put", "contains", "clear"}

\* faulty variant: every get takes the shared lock
LockTypeSharedGet(op) ==
    IF op \in {"put", "clear"} THEN "unique" ELSE "shared"

\* the lock a call constructs on its first line
LockType(op) ==
    CASE op \in {"put", "clear"} -> "unique"
      [] op = "contains" -> "shared"
      [] op = "get" -> IF policy = "LRU_K" THEN "unique" ELSE "shared"

\* whether the body of a call, as far as its first lock reaches, writes to the cache
Writes(op) ==
    CASE op = "put" -> TRUE
      [] op = "clear" -> TRUE
      [] op = "contains" -> FALSE
      [] op = "get" -> policy = "LRU_K"

Waiting(t) == pc[t] \in {"lock", "relock"}
\* the lock of mutex_ that a thread holds
Holds(t) == IF pc[t] \in {"find", "act", "relink"} THEN local[t].lock ELSE "none"
\* the calls in progress that will raise the frequency of a key
InFlight(key) ==
    Cardinality({t \in Threads : pc[t] # "idle" /\ local[t].key = key /\ local[t].op \in {"get", "put"}})

\* cache_.find(key): the node or record of the key, or cache_.end()
CacheFind(key) ==
    CASE policy = "LRU"   -> IF key \in DOMAIN lru.cache_ THEN lru.cache_[key] ELSE Null
      [] policy = "FIFO"  -> IF key \in DOMAIN fifo.cache_ THEN fifo.cache_[key] ELSE Null
      [] policy = "LFU"   -> IF key \in DOMAIN lfu.cache_ THEN lfu.cache_[key] ELSE Null
      [] policy = "LRU_K" -> IF key \in DOMAIN lruk.cache_ THEN <<"CacheRecord", key>> ELSE Null

\* a thread calls; the constructor of the lock joins the threads waiting for mutex_
Request(t, op, key, value) ==
    /\ Idle(t)
    /\ (policy = "LFU" /\ op \in {"get", "put"}) => GetFrequency(lfu, key) + InFlight(key) < MaxFreq
    /\ pc' = [pc EXCEPT ![t] = "lock"]
    /\ local' = [local EXCEPT ![t] = [key |-> key, node |-> Null, op |-> op, value |-> value,
                                       lock |-> LockType(op),
                                       ticket |-> Cardinality({u \in Threads : Waiting(u)}) + 1]]
    /\ UNCHANGED <<policy, engineVars, ret, historyVars, fault>>

\* mutex_ is granted to the thread that has waited longest, once no other thread holds a
\* lock that excludes the one it asks for
Acquire(t) ==
    /\ fault = "none" /\ Waiting(t) /\ local[t].ticket = 1
    /\ \A u \in Threads \ {t} :
          Holds(u) = "none" \/ (Holds(u) = "shared" /\ local[t].lock = "shared")
    /\ pc' = [pc EXCEPT ![t] = IF pc[t] = "lock" THEN "find" ELSE "relink"]
    /\ local' = [u \in Threads |->
                   IF Waiting(u) THEN [local[u] EXCEPT !.ticket = @ - 1] ELSE local[u]]
    /\ UNCHANGED <<policy, engineVars, ret, historyVars, fault>>

\* a whole call on the cache, by the thread that holds mutex_
WholeCall(op, key, value) ==
    \/ op = "get" /\ \/ CallLruGet(key)
                     \/ CallFifoGet(key)
                     \/ LfuGetWithin(key, MaxFreq + NumThreads)
                     \/ CallLruKGet(key)
    \/ op = "put" /\ \/ CallLruPut(key, value)
                     \/ CallFifoPut(key, value)
                     \/ LfuPutWithin(key, value, MaxFreq + NumThreads)
                     \/ CallLruKPut(key, value)
    \/ op = "contains" /\ \/ CallLruContains(key)
                          \/ CallFifoContains(key)
                          \/ CallLfuContains(key)
                          \/ CallLruKContains(key)
    \/ op = "clear" /\ (CallLruClear \/ CallFifoClear \/ CallLfuClear \/ CallLruKClear)

\* the body up to the lookup of the key. contains and clear return; a get of LruCache or
\* LfuCache that misses throws, one that hits unlocks and waits for the unique lock; every
\* other call goes on with the iterator it has got
Find(t) ==
    /\ fault = "none" /\ pc[t] = "find"
    /\ LET op == local[t].op
           key == local[t].key
       IN  IF op \in {"contains", "clear"}
              \/ (op = "get" /\ policy \in {"LRU", "LFU"} /\ CacheFind(key) = Null)
           THEN WholeCall(op, key, local[t].value) /\ Finish(t) /\ UNCHANGED fault
           ELSE IF op = "get" /\ policy \in {"LRU", "LFU"}
           THEN /\ pc' = [pc EXCEPT ![t] = "relock"]
                /\ local' = [local EXCEPT ![t].node = CacheFind(key),
                                          ![t].lock = "unique",
                                          ![t].ticket = Cardinality({u \in Threads : Waiting(u)}) + 1]
                /\ UNCHANGED <<policy, engineVars, ret, historyVars, fault>>
           ELSE /\ pc' = [pc EXCEPT ![t] = "act"]
                /\ local' = [local EXCEPT ![t].node = CacheFind(key)]
                /\ UNCHANGED <<policy, engineVars, ret, historyVars, fault>>

\* the body from the lookup to the return. Had another thread changed what the lookup
\* found, the body would go on with an iterator that no longer holds: undefined, the run ends
Act(t) ==
    /\ fault = "none" /\ pc[t] = "act"
    /\ IF local[t].node = CacheFind(local[t].key)
       THEN WholeCall(local[t].op, local[t].key, local[t].value) /\ Finish(t) /\ UNCHANGED fault
       ELSE /\ fault' = "data_race"
            /\ UNCHANGED <<policy, engineVars, ret, historyVars, pc, local>>

\* get of LruCache or LfuCache, under the unique lock
Relink(t) == LruGetRelink(t) \/ LfuGetRelink(t)

LockedCall == \E t \in Threads, op \in Calls, key \in LockKeys : Request(t, op, key, 1)
LockedAcquire == \E t \in Threads : Acquire(t)
LockedFind == \E t \in Threads : Find(t)
LockedAct == \E t \in Threads : Act(t)
LockedRelink == \E t \in Threads : Relink(t)

NextLocks == LockedCall \/ LockedAcquire \/ LockedFind \/ LockedAct \/ LockedRelink

\* any of the four engines with several callers
SpecLocks == Init /\ [][NextLocks]_vars
\* the same, no thread being held up for ever at a step it can take
SpecLocksFair ==
    Init /\ [][NextLocks]_vars
         /\ \A t \in Threads : WF_vars(Acquire(t) \/ Find(t) \/ Act(t) \/ Relink(t))

\* ------------------------------------------------------------ claims
\* the place of key k in a sequence of distinct keys (0 if it is not there)
PosIn(seq, k) == IF \E i \in 1..Len(seq) : seq[i] = k THEN CHOOSE i \in 1..Len(seq) : seq[i] = k ELSE 0
LeastRecent == IF recency = <<>> THEN NoKey ELSE recency[Len(recency)]
Earliest == IF arrival = <<>> THEN NoKey ELSE arrival[1]

\* C1: in FIFO, LRU and LFU, after every call of a single caller, size() <= capacity().
C1_SizeWithinCapacity == Size <= Capacity
\* a put that evicted has just returned and the cache is at capacity
C1_Witness == ret.op = "put" /\ removed # {} /\ Size = Capacity /\ Capacity = MaxCap

\* C2: in LRU-K, after every call, size() (the number of promoted records) <= capacity().
C2_LruKSizeWithinCapacity == policy = "LRU_K" => LruKSize(lruk) <= lruk.capacity_

\* C3: a put of a new key into a full LRU cache removes exactly one key, the present key
\* whose latest successful get or put is the oldest, and keeps every other key.
C3_LruEvictsLeastRecentlyUsed ==
    [][(policy = "LRU" /\ ret'.op = "put" /\ ret'.key \notin DOMAIN lru.cache_ /\ lru.size_ = lru.capacity_)
         => /\ LeastRecent \in DOMAIN lru.cache_
            /\ DOMAIN lru'.cache_ = (DOMAIN lru.cache_ \ {LeastRecent}) \cup {ret'.key}]_vars
\* a put into a full LRU cache has evicted a key although an earlier-inserted key is still present
C3_Witness ==
    /\ policy = "LRU" /\ ret.op = "put" /\ removed # {} /\ lru.capacity_ >= 2
    /\ arrival # <<>> /\ recency # <<>> /\ arrival[Len(arrival)] = ret.key
    /\ recency[1] = ret.key /\ Len(arrival) >= 2

\* C4: a put of a new key into a full FIFO cache removes the present key that was inserted
\* earliest, whatever get, contains or updating put calls came in between.
C4_FifoEvictsEarliestInserted ==
    [][(policy = "FIFO" /\ ret'.op = "put" /\ ret'.key \notin DOMAIN fifo.cache_ /\ fifo.size_ = fifo.capacity_)
         => /\ Earliest \in DOMAIN fifo.cache_
            /\ DOMAIN fifo'.cache_ = (DOMAIN fifo.cache_ \ {Earliest}) \cup {ret'.key}]_vars
\* a put into a full FIFO cache of two or more keys has evicted one
C4_Witness ==
    /\ policy = "FIFO" /\ ret.op = "put" /\ removed # {} /\ fifo.capacity_ >= 2
    /\ fifo.size_ = fifo.capacity_ /\ arrival[Len(arrival)] = ret.key

\* C5: a put of a new key into a full LFU cache removes a key of minimum frequency, and among
\* the keys of that frequency the one that entered it (by insertion or increment) earliest.
C5_LfuEvictsLeastFrequentOldest ==
    [][(policy = "LFU" /\ ret'.op = "put" /\ ret'.key \notin DOMAIN lfu.cache_
          /\ LfuSize(lfu) = lfu.capacity_)
         => \E victim \in DOMAIN lfu.cache_ :
              /\ DOMAIN lfu'.cache_ = (DOMAIN lfu.cache_ \ {victim}) \cup {ret'.key}
              /\ \A k \in DOMAIN lfu.cache_ \ {victim} :
                    \/ GetFrequency(lfu, victim) < GetFrequency(lfu, k)
                    \/ /\ GetFrequency(lfu, victim) = GetFrequency(lfu, k)
                       /\ PosIn(recency, k) < PosIn(recency, victim)]_vars
\* a put into a full LFU cache has evicted a key and left a key of higher frequency
C5_Witness ==
    /\ policy = "LFU" /\ ret.op = "put" /\ removed # {} /\ lfu.capacity_ >= 2
    /\ \E k \in DOMAIN lfu.cache_ : GetFrequency(lfu, k) >= 2

\* C6: in LRU-K a key with fewer than K puts since it was last in neither table is not
\* visible (contains false, get throws); the put that brings its history count to K makes
\* it visible, and get then returns the value of that put.
C6_LruKVisibleAtKthPut ==
    [][policy = "LRU_K" =>
         /\ \A k \in Keys :
               putsSince'[k] < lruk'.k_ =>
                  /\ ~LruKContainsOp(lruk', k)
                  /\ LruKGetOp(lruk', k, clock').threw = "out_of_range"
         /\ (ret'.op = "put" /\ ret'.key \notin DOMAIN lruk.cache_
               /\ GetHistoryAccessCount(lruk, ret'.key) = lruk.k_ - 1)
              => /\ LruKContainsOp(lruk', ret'.key)
                 /\ LruKGetOp(lruk', ret'.key, clock').threw = "none"
                 /\ LruKGetOp(lruk', ret'.key, clock').value = written'[ret'.key]]_vars
\* with K = 2, the second put on a key has just made it visible
C6_Witness ==
    /\ policy = "LRU_K" /\ lruk.k_ = 2 /\ ret.op = "put" /\ LruKContainsOp(lruk, ret.key)
    /\ putsSince[ret.key] = 2 /\ lruk.cache_[ret.key].access_times[1] < clock
    /\ \E k \in Keys : putsSince[k] = 1 /\ ~LruKContainsOp(lruk, k)

\* C7: when an eviction removes a promoted record of LRU-K, the record removed is the one
\* whose oldest timestamp in its queue (its K-th most recent access) is the earliest of all
\* promoted records.
C7_VictimHasEarliestKthAccess ==
    [][(policy = "LRU_K" /\ ret'.op = "put")
         => \A victim \in DOMAIN lruk.cache_ \ DOMAIN lruk'.cache_ :
               \A other \in DOMAIN lruk.cache_ :
                  Front(lruk.cache_[victim].access_times) <= Front(lruk.cache_[other].access_times)]_vars

\* the history records findVictimKey can choose when put(key) promotes
Unpromoted(key) == {h \in DOMAIN lruk.history_ \ {key} : Len(lruk.history_[h]) < lruk.k_}

\* C8: in LRU-K with K >= 2, when a promotion finds the promoted table full and an
\* unpromoted history record exists, the victim is the unpromoted record with the earliest
\* first access, and no promoted record is removed by that put.
C8_UnpromotedEvictedFirst ==
    [][(policy = "LRU_K" /\ lruk.k_ >= 2 /\ ret'.op = "put" /\ Evicts(lruk, ret'.key)
          /\ Unpromoted(ret'.key) # {})
         => \E victim \in Unpromoted(ret'.key) :
              /\ \A h \in Unpromoted(ret'.key) : Front(lruk.history_[victim]) <= Front(lruk.history_[h])
              /\ DOMAIN lruk'.history_ = DOMAIN lruk.history_ \ {victim, ret'.key}
              /\ DOMAIN lruk'.cache_ = DOMAIN lruk.cache_ \cup {ret'.key}]_vars
\* a promoting put has just removed one of two unpromoted history records, the other is
\* still there, and no promoted record went
C8_Witness ==
    /\ policy = "LRU_K" /\ lruk.k_ >= 2 /\ ret.op = "put" /\ LruKContainsOp(lruk, ret.key)
    /\ removed # {} /\ removed \cap DOMAIN written = {}
    /\ LruKSize(lruk) > lruk.capacity_
    /\ \E h \in DOMAIN lruk.history_ : Len(lruk.history_[h]) < lruk.k_

\* C9: in FIFO, LRU and LFU, get on a present key returns the value of the latest put on
\* it; a put on a present key replaces the value and leaves size() and the key set alone.
C9_RoundTrip ==
    [][/\ \A k \in Visible' : GetResult(k)'.threw = "none" /\ GetResult(k)'.value = written'[k]
       /\ (ret'.op = "put" /\ ret'.key \in Visible) => (Size' = Size /\ Visible' = Visible)]_vars
\* a put has just replaced the value of a present key by a different one
C9_Witness ==
    /\ ret.op = "put" /\ removed = {} /\ ret.key \in Visible /\ Size >= 2
    /\ written[ret.key] = 2 /\ \E k \in Visible : written[k] = 1

\* the hash index of the engine in use (LRU or LFU)
Index == IF policy = "LRU" THEN lru.cache_ ELSE lfu.cache_

\* C10: in LRU and LFU, between the index lookup of get and its relink or frequency update
\* no put or clear of another thread takes effect, so the node that get is about to mutate
\* is still in the index under its key.
C10_GetMutatesIndexedNode ==
    \A t \in Threads :
       pc[t] = "relink" => (local[t].key \in DOMAIN Index /\ Index[local[t].key] = local[t].node)
\* the nodes met by following `next` from p up to (not including) `stop`, n at most
RECURSIVE Walk(_, _, _, _)
Walk(mem, p, stop, n) ==
    IF p = stop \/ p \notin DOMAIN mem \/ n = 0 THEN <<>>
    ELSE <<p>> \o Walk(mem, mem[p].next, stop, n - 1)

\* the nodes of the recency list of LruCache, between the two sentinels
LruList(c) == Walk(c.mem, c.mem[LruHead].next, LruTail, Cardinality(DOMAIN c.mem))
\* the nodes of the queue of FifoCache, from head_ to the null pointer
FifoList(c) == Walk(c.mem, c.head_, Null, Cardinality(DOMAIN c.mem))
\* the nodes of the bucket of one frequency of LfuCache, between its two dummies
BucketList(c, frequency) ==
    Walk(c.mem, c.mem[c.frequency_buckets_[frequency].head].next,
         c.frequency_buckets_[frequency].tail, Cardinality(DOMAIN c.mem))

\* a list of nodes holds each key of the index once, by the node the index has, and no other
ListIsIndex(mem, list, index) ==
    /\ Len(list) = Cardinality(DOMAIN index)
    /\ {list[i] : i \in 1..Len(list)} = {index[k] : k \in DOMAIN index}
    /\ \A k \in DOMAIN index : mem[index[k]].key = k

\* no call is in progress
Quiescent == \A t \in Threads : pc[t] = "idle"

\* C11: LRU with several callers: whenever no call is in progress the recency list holds
\* exactly the indexed keys, size() is the number of keys contains() is true for, and that
\* number is at most capacity().
C11_LruConsistentWhenQuiescent ==
    (policy = "LRU" /\ Quiescent)
       => /\ ListIsIndex(lru.mem, LruList(lru), lru.cache_)
          /\ lru.size_ = Cardinality({k \in Keys : LruContainsOp(lru, k)})
          /\ lru.size_ <= lru.capacity_

\* every node of every bucket is the node of an indexed key, and the counters are right
BucketsHoldIndexedNodes(c) ==
    \A f \in DOMAIN c.frequency_buckets_ :
       /\ \A i \in 1..Len(BucketList(c, f)) :
             LET node == BucketList(c, f)[i]
             IN  c.mem[node].key \in DOMAIN c.cache_ /\ c.cache_[c.mem[node].key] = node
       /\ c.frequency_buckets_[f].size = Len(BucketList(c, f))

\* C12: LFU with several callers: whenever no call is in progress every node of a frequency
\* bucket belongs to an indexed key, each bucket's size counter is its number of nodes, and
\* size() <= capacity().
C12_LfuConsistentWhenQuiescent ==
    (policy = "LFU" /\ Quiescent)
       => /\ BucketsHoldIndexedNodes(lfu)
          /\ LfuSize(lfu) <= lfu.capacity_

\* C13: LRU and FIFO with one caller: after every call the nodes of the linked list carry
\* exactly the keys of the index, each once, and size_ is the number of index keys.
C13_ListMatchesIndex ==
    /\ policy = "LRU" => /\ ListIsIndex(lru.mem, LruList(lru), lru.cache_)
                         /\ lru.size_ = Cardinality(DOMAIN lru.cache_)
    /\ policy = "FIFO" => /\ ListIsIndex(fifo.mem, FifoList(fifo), fifo.cache_)
                          /\ fifo.size_ = Cardinality(DOMAIN fifo.cache_)
\* a put has just evicted from a full LRU list of MaxCap nodes
C13_Witness ==
    policy = "LRU" /\ ret.op = "put" /\ removed # {} /\ Len(LruList(lru)) = MaxCap

\* C14: LFU with one caller: after every call the node of each indexed key is in exactly
\* one bucket, the bucket of the node's own frequency; no bucket holds a node of a key that
\* is not indexed; each bucket's size counter is the number of nodes it holds.
C14_BucketsMatchIndex ==
    policy = "LFU" =>
       /\ BucketsHoldIndexedNodes(lfu)
       /\ \A k \in DOMAIN lfu.cache_ :
             \A f \in DOMAIN lfu.frequency_buckets_ :
                Cardinality({i \in 1..Len(BucketList(lfu, f)) : BucketList(lfu, f)[i] = lfu.cache_[k]})
                   = (IF f = GetFrequency(lfu, k) THEN 1 ELSE 0)
       /\ \A k \in DOMAIN lfu.cache_ : GetFrequency(lfu, k) \in DOMAIN lfu.frequency_buckets_
\* two keys sit in two different buckets after a get, and the bucket of frequency 1 is
\* down to one node
C14_Witness ==
    /\ policy = "LFU" /\ ret.op = "get" /\ ret.ok /\ LfuSize(lfu) = 2
    /\ GetFrequency(lfu, ret.key) = 2
    /\ 1 \in DOMAIN lfu.frequency_buckets_ /\ lfu.frequency_buckets_[1].size = 1
\* C15: LFU with one caller: after every call getMinFrequency() is the smallest frequency
\* of the present keys, and 1 when the cache is empty.
C15_MinFrequencyIsSmallest ==
    policy = "LFU" =>
       IF DOMAIN lfu.cache_ = {}
       THEN GetMinFrequency(lfu) = 1
       ELSE /\ \E k \in DOMAIN lfu.cache_ : GetFrequency(lfu, k) = GetMinFrequency(lfu)
            /\ \A k \in DOMAIN lfu.cache_ : GetFrequency(lfu, k) >= GetMinFrequency(lfu)
\* a get or an updating put has emptied the bucket of frequency 1 of a cache of two keys
C15_Witness ==
    /\ policy = "LFU" /\ ret.op \in {"get", "put"} /\ removed = {}
    /\ LfuSize(lfu) = 2 /\ GetMinFrequency(lfu) = 2
    /\ 1 \in DOMAIN lfu.frequency_buckets_ /\ BucketEmpty(lfu, 1)
\* C16: LFU: getFrequency of a present key is 1 at its insertion and grows by exactly one
\* with every successful get and every put on it while it stays present (so it is 1 plus
\* the number of those calls since the insertion); it is 0 for an absent key; no other
\* call, and no call on another key, changes it.
C16_FrequencyCountsAccesses ==
    [][policy = "LFU" =>
         \A k \in Keys :
            IF k \notin DOMAIN lfu'.cache_ THEN GetFrequency(lfu, k)' = 0
            ELSE IF k \notin DOMAIN lfu.cache_ THEN GetFrequency(lfu, k)' = 1
            ELSE IF ret'.key = k /\ (ret'.op = "put" \/ (ret'.op = "get" /\ ret'.ok))
            THEN GetFrequency(lfu, k)' = GetFrequency(lfu, k) + 1
            ELSE GetFrequency(lfu, k)' = GetFrequency(lfu, k)]_vars
\* a put on a present key has just raised its frequency to 2, next to a key of frequency 1
C16_Witness ==
    /\ policy = "LFU" /\ ret.op = "put" /\ removed = {} /\ GetFrequency(lfu, ret.key) = 2
    /\ \E k \in DOMAIN lfu.cache_ : GetFrequency(lfu, k) = 1
\* C17: in every engine a get that fails with NotFound leaves the whole engine as it was:
\* keys, values, ordering, frequencies, min_frequency, history and promoted queues.
C17_FailedGetChangesNothing ==
    [][(ret'.op = "get" /\ ~ret'.ok) => <<lru, fifo, lfu, lruk>>' = <<lru, fifo, lfu, lruk>>]_vars
\* LRU-K: a get on a key that has a history record and is not promoted has just failed
C17_Witness ==
    /\ policy = "LRU_K" /\ ret.op = "get" /\ ~ret.ok
    /\ ret.key \in DOMAIN lruk.history_ /\ DOMAIN lruk.cache_ # {}

\* what the tables show when the call just made recorded an access to its key, which was
\* not promoted: one timestamp more in its history queue, or, if that is the K-th, the
\* promotion of the key
HistoryGrewByOne ==
    IF GetHistoryAccessCount(lruk, ret'.key) + 1 < lruk.k_
    THEN /\ GetHistoryAccessCount(lruk', ret'.key) = GetHistoryAccessCount(lruk, ret'.key) + 1
         /\ Back(lruk'.history_[ret'.key]) = clock'
    ELSE /\ GetHistoryAccessCount(lruk', ret'.key) = 0
         /\ GetCacheAccessCount(lruk', ret'.key) = lruk.k_
         /\ Back(lruk'.cache_[ret'.key].access_times) = clock'

\* C18 as the code has it: in LRU-K every put to a key absent from the promoted table
\* appends one timestamp to the history queue of the key (creating the queue on the first),
\* so getHistoryAccessCount grows by one per such put until the K-th promotes the key; a
\* get on such a key fails and records nothing.
C18_PutRecordsHistoryGetDoesNot ==
    [][policy = "LRU_K" =>
         /\ (ret'.op = "put" /\ ret'.key \notin DOMAIN lruk.cache_) => HistoryGrewByOne
         /\ (ret'.op = "get" /\ ret'.key \notin DOMAIN lruk.cache_)
               => /\ ~ret'.ok
                  /\ GetHistoryAccessCount(lruk', ret'.key) = GetHistoryAccessCount(lruk, ret'.key)]_vars
\* with K = 2 the first put on a key has just given it a history queue of one timestamp
C18_Witness ==
    /\ policy = "LRU_K" /\ lruk.k_ = 2 /\ ret.op = "put"
    /\ GetHistoryAccessCount(lruk, ret.key) = 1 /\ DOMAIN lruk.cache_ # {}

\* C18 as stated: every access, get as well as put, to a key absent from the promoted table
\* appends one timestamp to the history queue of the key.
C18_EveryAccessRecordsHistory ==
    [][(policy = "LRU_K" /\ ret'.op \in {"get", "put"} /\ ret'.key \notin DOMAIN lruk.cache_)
          => HistoryGrewByOne]_vars

\* C19: put never fails, in any engine and any reachable state; the error branches of
\* findVictimKey and promoteToCache in LRU-K are never taken.
C19_PutNeverFails == ret.op = "put" => ret.ok
\* LRU-K: a put has just promoted a key into a full table and evicted a promoted record,
\* found by the scan of the promoted table
C19_Witness ==
    /\ policy = "LRU_K" /\ ret.op = "put" /\ ret.ok /\ removed # {}
    /\ LruKContainsOp(lruk, ret.key) /\ LruKSize(lruk) = lruk.capacity_

\* the engine in use, as its constructor leaves it for the capacity (and K) it has
AsConstructed ==
    CASE policy = "LRU"   -> lru = LruCacheCtor(lru.capacity_).c
      [] policy = "FIFO"  -> fifo = FifoCacheCtor(fifo.capacity_).c
      [] policy = "LFU"   -> lfu = LfuCacheCtor(lfu.capacity_).c
      [] policy = "LRU_K" -> lruk = LruKCacheCtor(lruk.capacity_, lruk.k_).c

\* C20: after clear, in every engine, size() is 0, empty() is true, contains is false for
\* every key, capacity() is what it was, min_frequency of LFU is 1, LRU-K has no promoted
\* and no history record, and the engine is in the state its constructor leaves it in.
C20_ClearResetsEngine ==
    [][ret'.op = "clear" =>
         /\ Size' = 0 /\ Empty' /\ Visible' = {}
         /\ Capacity' = Capacity
         /\ policy = "LFU" => GetMinFrequency(lfu)' = 1
         /\ policy = "LRU_K" => \A k \in MoreKeys : /\ GetHistoryAccessCount(lruk, k)' = 0
                                                     /\ GetCacheAccessCount(lruk, k)' = 0
         /\ AsConstructed']_vars
\* LRU-K with K = 2: clear has just removed the records of all the keys, promoted or not
C20_Witness ==
    /\ policy = "LRU_K" /\ lruk.k_ = 2 /\ ret.op = "clear" /\ removed = Keys

\* the sets of keys put(key, value) can remove from the visible keys of the engine `c`
\* (one set for FIFO, LRU and LFU; one for each reading of the clock and each
\* iteration order for LRU-K)
PutRemoves(c, key, value) ==
    CASE policy = "LRU"   -> {DOMAIN c.cache_ \ DOMAIN LruPutOp(c, key, value).cache_}
      [] policy = "FIFO"  -> {DOMAIN c.cache_ \ DOMAIN FifoPutOp(c, key, value).cache_}
      [] policy = "LFU"   -> {DOMAIN c.cache_ \ DOMAIN LfuPutOp(c, key, value).cache_}
      [] policy = "LRU_K" ->
           {DOMAIN c.cache_ \ DOMAIN LruKPutOp(c, key, value, now, history_order, cache_order).c.cache_ :
              now \in Now,
              history_order \in (IF Evicts(c, key)
                                 THEN IterationOrders(DOMAIN c.history_ \cup {key}) ELSE {<<>>}),
              cache_order \in (IF Evicts(c, key) THEN IterationOrders(DOMAIN c.cache_) ELSE {<<>>})}

\* C21: in every engine contains, size, empty and capacity leave the whole state as it
\* was; called again on the state they leave they return what they returned before; and
\* after contains(key) a put removes the keys it would have removed without it.
C21_ConstCallsArePure ==
    \A key \in Keys :
       LET r == ConstCalls(Engine, key)
       IN  /\ r.c = Engine
           /\ ConstCalls(r.c, key) = r
           /\ \A other \in Keys, value \in Values :
                 PutRemoves(r.c, other, value) = PutRemoves(Engine, other, value)
\* a full LRU cache of two keys: contains finds the least recently used key, size() is
\* capacity(), and a put of a new key removes the key contains has just looked at
C21_Witness ==
    /\ policy = "LRU" /\ Len(recency) = 2
    /\ LET r == ConstCalls(Engine, LeastRecent)
       IN  /\ r.contains /\ r.size = 2 /\ r.capacity = 2 /\ ~r.empty
           /\ \E other \in Keys \ Visible : PutRemoves(r.c, other, 1) = {{LeastRecent}}

\* C22: a constructor called with capacity <= 0 throws InvalidCapacityException, in every
\* engine; the constructor of LRU-K called with capacity >= 1 and K <= 0 throws
\* invalid_argument; with both wrong it is the capacity exception; and after a constructor
\* has thrown there is no engine: no object, and no call the caller can make on one.
C22_ConstructionValidatesArguments ==
    ret.op = "new" =>
       /\ ret.capacity <= 0 => ~ret.ok /\ ret.threw = "InvalidCapacityException"
       /\ (ret.type = "LRU_K" /\ ret.capacity >= 1 /\ ret.k <= 0)
             => ~ret.ok /\ ret.threw = "invalid_argument"
       /\ ~ret.ok => /\ policy = "none"
                     /\ lru = Null /\ fifo = Null /\ lfu = Null /\ lruk = Null
                     /\ ~ENABLED (CallGetPolicyName \/ Next)
\* the constructor of LRU-K, called with a capacity and a K that are both wrong, has
\* thrown the capacity exception
C22_Witness ==
    /\ ret.op = "new" /\ ret.type = "LRU_K" /\ ret.capacity <= 0 /\ ret.k <= 0
    /\ ret.threw = "InvalidCapacityException" /\ policy = "none"

\* the decimal numeral of a natural number
Digit(d) ==
    CASE d = 0 -> "0" [] d = 1 -> "1" [] d = 2 -> "2" [] d = 3 -> "3" [] d = 4 -> "4"
      [] d = 5 -> "5" [] d = 6 -> "6" [] d = 7 -> "7" [] d = 8 -> "8" [] d = 9 -> "9"
RECURSIVE Decimal(_)
Decimal(n) == IF n < 10 THEN Digit(n) ELSE Decimal(n \div 10) \o Digit(n % 10)

C24_PutEvictsOnlyWhenFull ==
    [][ret'.op = "put" =>
          /\ (Visible \ Visible' # {}) <=> (ret'.key \notin Visible /\ Size = Capacity)
          /\ Cardinality(Visible \ Visible') <= 1
          /\ ret'.key \in Visible']_vars
\* a put of a new key into a full LFU cache of two keys has removed one key, and its own
\* key is present
C24_Witness ==
    /\ policy = "LFU" /\ ret.op = "put" /\ Cardinality(removed) = 1
    /\ ret.key \in Visible /\ ret.key \notin removed /\ Size = 2 /\ Capacity = 2

\* the value the engine `c` of the caller's policy stores for a visible key
StoredValue(c, key) ==
    CASE policy = "LRU"   -> c.mem[c.cache_[key]].value
      [] policy = "FIFO"  -> c.mem[c.cache_[key]].value
      [] policy = "LFU"   -> c.mem[c.cache_[key]].value
      [] policy = "LRU_K" -> c.cache_[key].value
\* what get(key) on the engine `c` of the caller's policy returns, the clock reading `now`
GetOn(c, key, now) ==
    CASE policy = "LRU"   -> LruGetOp(c, key)
      [] policy = "FIFO"  -> FifoGetOp(c, key)
      [] policy = "LFU"   -> LfuGetOp(c, key)
      [] policy = "LRU_K" -> LruKGetOp(c, key, now)

\* C25: in every engine a get that succeeds leaves the set of visible keys, size() and
\* the value stored for every key as they were, so that the same get called again at once
\* returns the same value.
C25_GetKeepsKeysAndValues ==
    [][ret'.op = "get" /\ ret'.ok =>
          /\ Visible' = Visible
          /\ Size' = Size
          /\ \A key \in Visible : StoredValue(Engine', key) = StoredValue(Engine, key)
          /\ ret'.value = StoredValue(Engine, ret'.key)
          /\ LET again == GetOn(Engine', ret'.key, clock')
             IN  again.threw = "none" /\ again.value = ret'.value]_vars
\* a get on a promoted key of a full LRU-K cache has pushed a later timestamp on the
\* queue of the key and returned the value last put
C25_Witness ==
    /\ policy = "LRU_K" /\ ret.op = "get" /\ ret.ok /\ Size = 2
    /\ ret.value = written[ret.key]
    /\ clock > Epoch /\ Back(lruk.cache_[ret.key].access_times) = clock
    /\ Front(lruk.cache_[ret.key].access_times) < clock

\* C26: in FIFO a get, found or not, leaves the whole cache as it was: index, queue, head,
\* tail and size; a put on a key of the index writes the value of that key's node and
\* leaves the index, the order of the queue, head, tail, size and every other value.
C26_FifoGetAndUpdateKeepOrder ==
    [][policy = "FIFO" =>
          /\ ret'.op = "get" => fifo' = fifo
          /\ (ret'.op = "put" /\ ret'.key \in DOMAIN fifo.cache_) =>
                /\ fifo'.cache_ = fifo.cache_
                /\ FifoList(fifo') = FifoList(fifo)
                /\ fifo'.head_ = fifo.head_ /\ fifo'.tail_ = fifo.tail_
                /\ fifo'.size_ = fifo.size_
                /\ \A key \in DOMAIN fifo.cache_ \ {ret'.key} :
                      StoredValue(fifo', key) = StoredValue(fifo, key)
                /\ StoredValue(fifo', ret'.key) = written'[ret'.key]]_vars
\* a get on the earliest key of a full FIFO cache has returned its value, and the key is
\* still the first of the queue, the other key still the tail
C26_Witness ==
    /\ policy = "FIFO" /\ ret.op = "get" /\ ret.ok /\ fifo.size_ = 2
    /\ ret.key = Earliest
    /\ fifo.head_ = fifo.cache_[ret.key] /\ fifo.tail_ # fifo.head_

\* C27: in FIFO, LRU and LFU no call but clear makes size() smaller, and from a state
\* where size() = capacity() every call but clear leads to one where it still is.
C27_SizeGrowsUntilClear ==
    [][ret'.op # "clear" =>
          /\ Size' >= Size
          /\ Size = Capacity => Size' = Capacity]_vars
\* a put on the earliest inserted key of a full LRU cache: the key was in the index, and
\* size() is still capacity()
C27_Witness ==
    /\ policy = "LRU" /\ ret.op = "put" /\ Size = 2 /\ Capacity = 2
    /\ ret.key = Earliest /\ removed = {}

\* the keys of LfuCache `c` whose node has frequency f
AtFrequency(c, f) == {key \in DOMAIN c.cache_ : GetFrequency(c, key) = f}

\* C28: in LFU a get that succeeds and a put on a key of the index raise min_frequency by
\* one when the node of the key was at min_frequency and the only node there, and leave
\* it otherwise; a put of a new key makes it 1; and no call makes it smaller but a put of
\* a new key and clear.
C28_MinFrequencyTransitions ==
    [][policy = "LFU" =>
          LET key == ret'.key
              touches == \/ ret'.op = "get" /\ ret'.ok
                         \/ ret'.op = "put" /\ key \in DOMAIN lfu.cache_
              inserts == ret'.op = "put" /\ key \notin DOMAIN lfu.cache_
              alone == /\ GetFrequency(lfu, key) = GetMinFrequency(lfu)
                       /\ AtFrequency(lfu, GetFrequency(lfu, key)) = {key}
          IN  /\ touches => GetMinFrequency(lfu') = IF alone THEN GetMinFrequency(lfu) + 1
                                                    ELSE GetMinFrequency(lfu)
              /\ inserts => GetMinFrequency(lfu') = 1
              /\ GetMinFrequency(lfu') < GetMinFrequency(lfu) => inserts \/ ret'.op = "clear"]_vars
\* a get has moved the only key of frequency 1 to frequency 2, next to a key of frequency
\* 3, and min_frequency is 2
C28_Witness ==
    /\ policy = "LFU" /\ ret.op = "get" /\ ret.ok
    /\ GetFrequency(lfu, ret.key) = 2 /\ AtFrequency(lfu, 2) = {ret.key}
    /\ AtFrequency(lfu, 1) = {} /\ AtFrequency(lfu, 3) # {}
    /\ GetMinFrequency(lfu) = 2

\* C29: in LFU a put of a new key leaves the key with frequency 1 and its node first in
\* the bucket of frequency 1; and a put of a new key into a full cache where one key alone
\* has frequency 1 (it has not been accessed since it was inserted, and every other key
\* has frequency 2 or more) removes that key.
C29_NewKeyStartsAtFrequencyOne ==
    [][(policy = "LFU" /\ ret'.op = "put" /\ ret'.key \notin DOMAIN lfu.cache_) =>
          /\ GetFrequency(lfu', ret'.key) = 1
          /\ BucketList(lfu', 1) # <<>>
          /\ BucketList(lfu', 1)[1] = lfu'.cache_[ret'.key]
          /\ \A unused \in DOMAIN lfu.cache_ :
                (LfuSize(lfu) = lfu.capacity_ /\ AtFrequency(lfu, 1) = {unused})
                   => removed' = {unused}]_vars
\* a put of a new key into a full cache has removed a key; the key that stays has
\* frequency 2 or more, and the new key is alone in the bucket of frequency 1
C29_Witness ==
    /\ policy = "LFU" /\ ret.op = "put" /\ Cardinality(removed) = 1 /\ LfuSize(lfu) = 2
    /\ GetFrequency(lfu, ret.key) = 1
    /\ BucketList(lfu, 1) = <<lfu.cache_[ret.key]>>
    /\ \E other \in DOMAIN lfu.cache_ \ {ret.key} : GetFrequency(lfu, other) >= 2

\* C30: in LRU-K, after every call, no key has a record in both history_ and cache_,
\* every record of history_ holds at least 1 and at most K - 1 timestamps, and every
\* record of cache_ holds at most K timestamps.
C30_LruKTablesDisjointAndBounded ==
    policy = "LRU_K" =>
       /\ DOMAIN lruk.history_ \cap DOMAIN lruk.cache_ = {}
       /\ \A key \in DOMAIN lruk.history_ :
             GetHistoryAccessCount(lruk, key) \in 1..(lruk.k_ - 1)
       /\ \A key \in DOMAIN lruk.cache_ : GetCacheAccessCount(lruk, key) <= lruk.k_
\* K = 2: a put has promoted its key, whose record holds two timestamps, while another key
\* waits in history_ with one
C30_Witness ==
    /\ policy = "LRU_K" /\ lruk.k_ = 2 /\ ret.op = "put"
    /\ ret.key \in DOMAIN lruk.cache_ /\ GetCacheAccessCount(lruk, ret.key) = 2
    /\ \E key \in DOMAIN lruk.history_ : GetHistoryAccessCount(lruk, key) = 1

\* C31: in LRU-K a key becomes promoted only in a put on that key, the put that finds
\* K - 1 timestamps in its history record and records the K-th; a promoted key that is
\* removed is afterwards in neither table (contains false, both access counts 0), and a
\* key is never promoted with fewer than K puts since it was last in neither table.
C31_LruKLifecycle ==
    [][policy = "LRU_K" =>
          \A key \in Keys :
             /\ (key \notin DOMAIN lruk.cache_ /\ key \in DOMAIN lruk'.cache_) =>
                   /\ ret'.op = "put" /\ ret'.key = key
                   /\ GetHistoryAccessCount(lruk, key) = lruk.k_ - 1
             /\ (key \in DOMAIN lruk.cache_ /\ key \notin DOMAIN lruk'.cache_) =>
                   /\ ~LruKContainsOp(lruk', key)
                   /\ GetHistoryAccessCount(lruk', key) = 0
                   /\ GetCacheAccessCount(lruk', key) = 0
                   /\ putsSince'[key] = 0
             /\ key \in DOMAIN lruk'.cache_ => putsSince'[key] >= lruk'.k_]_vars
\* K = 2: a put has promoted its key into the full table and a promoted key has gone to
\* make room; that key is in neither table and counts no put
C31_Witness ==
    /\ policy = "LRU_K" /\ lruk.k_ = 2 /\ ret.op = "put" /\ ret.key \in DOMAIN lruk.cache_
    /\ LruKSize(lruk) = lruk.capacity_ /\ Cardinality(removed) = 1
    /\ \A key \in removed :
          /\ GetHistoryAccessCount(lruk, key) = 0 /\ GetCacheAccessCount(lruk, key) = 0
          /\ putsSince[key] = 0

\* the queue q after one more timestamp, the oldest dropped if it would hold more than k
Pushed(q, now, k) ==
    IF Len(q) + 1 > k THEN [i \in 1..Len(q) |-> IF i < Len(q) THEN q[i + 1] ELSE now]
    ELSE [i \in 1..(Len(q) + 1) |-> IF i <= Len(q) THEN q[i] ELSE now]

\* C32: in LRU-K a put on a promoted key replaces its value and a get on it returns its
\* value; each appends the time of the call to the queue of the record and drops the
\* oldest timestamp if the queue would pass K; size(), the history table and every other
\* promoted record are as before.
C32_PromotedAccessAppendsTimestamp ==
    [][(policy = "LRU_K" /\ ret'.op \in {"get", "put"} /\ ret'.key \in DOMAIN lruk.cache_) =>
          LET key == ret'.key
          IN  /\ ret'.op = "put" => lruk'.cache_[key].value = written'[key]
              /\ ret'.op = "get" => /\ ret'.ok /\ ret'.value = lruk.cache_[key].value
                                    /\ lruk'.cache_[key].value = lruk.cache_[key].value
              /\ lruk'.cache_[key].access_times = Pushed(lruk.cache_[key].access_times, clock', lruk.k_)
              /\ LruKSize(lruk') = LruKSize(lruk)
              /\ DOMAIN lruk'.cache_ = DOMAIN lruk.cache_
              /\ lruk'.history_ = lruk.history_
              /\ \A other \in DOMAIN lruk.cache_ \ {key} : lruk'.cache_[other] = lruk.cache_[other]]_vars
\* K = 2: a get at time 2 on a promoted key has left the queue <<1, 2>>, an older
\* timestamp dropped, while another key waits in the history table
C32_Witness ==
    /\ policy = "LRU_K" /\ lruk.k_ = 2 /\ ret.op = "get" /\ ret.ok /\ clock = 2
    /\ lruk.cache_[ret.key].access_times = <<1, 2>>
    /\ DOMAIN lruk.history_ # {}

\* C37: every promoted record of LRU-K holds exactly K timestamps in every state, and the
\* next recordHistoryAccess, whatever the key, leaves a queue of at most K timestamps
\* without having dropped one: the queue it finds with the new timestamp appended.
C37_PromotedRecordsHoldK ==
    policy = "LRU_K" =>
       /\ \A key \in DOMAIN lruk.cache_ : GetCacheAccessCount(lruk, key) = lruk.k_
       /\ \A key \in Keys \ DOMAIN lruk.cache_ :
             LET found == IF key \in DOMAIN lruk.history_ THEN lruk.history_[key] ELSE <<>>
             IN  /\ Len(found) + 1 <= lruk.k_
                 /\ RecordHistoryAccess(lruk, key, clock).history_[key] = Append(found, clock)
\* K = 1: a get at time 2 has replaced the one timestamp of a promoted record
C37_Witness ==
    /\ policy = "LRU_K" /\ lruk.k_ = 1 /\ ret.op = "get" /\ ret.ok /\ clock = 2
    /\ lruk.cache_[ret.key].access_times = <<2>>

\* C38: with one caller, in every state where a put of a new key would find the cache
\* full, the eviction finds a node that holds a key of the index: removeTail of LRU a node
\* that is neither sentinel, removeHead of FIFO a node and not nullptr, evictLFU of LFU a
\* node and not nullptr.
C38_EvictionFindsVictim ==
    /\ (policy = "LRU" /\ LruFull(lru)) =>
          LET node == LruRemoveTail(lru.mem).node
          IN  /\ node \notin {LruHead, LruTail}
              /\ lru.mem[node].key \in DOMAIN lru.cache_
              /\ lru.cache_[lru.mem[node].key] = node
    /\ (policy = "FIFO" /\ FifoFull(fifo)) =>
          LET node == FifoRemoveHead(fifo).node
          IN  /\ node # Null
              /\ fifo.mem[node].key \in DOMAIN fifo.cache_
              /\ fifo.cache_[fifo.mem[node].key] = node
    /\ (policy = "LFU" /\ LfuFull(lfu)) =>
          LET node == EvictLFU(lfu).node
          IN  /\ node # Null
              /\ GetMinFrequency(lfu) \in DOMAIN lfu.frequency_buckets_
              /\ ~BucketEmpty(lfu, GetMinFrequency(lfu))
              /\ lfu.mem[node].key \in DOMAIN lfu.cache_
              /\ lfu.cache_[lfu.mem[node].key] = node
\* a put has evicted from a full FIFO cache of two keys, the cache is full again, and
\* removeHead would return the node of the earliest key
C38_Witness ==
    /\ policy = "FIFO" /\ ret.op = "put" /\ removed # {} /\ fifo.size_ = 2 /\ FifoFull(fifo)
    /\ FifoRemoveHead(fifo).node = fifo.cache_[Earliest]

\* C39: in FIFO, after every call, head_ is null exactly when tail_ is null and exactly
\* when size() is 0; otherwise the nodes reached from head_ by next hold the indexed keys,
\* each once, in the order of their insertion, and the last of them is tail_, the node of
\* the key inserted last among those present.
C39_FifoQueueShape ==
    policy = "FIFO" =>
       LET list == FifoList(fifo)
       IN  /\ (fifo.head_ = Null) <=> (fifo.tail_ = Null)
           /\ (fifo.head_ = Null) <=> (fifo.size_ = 0)
           /\ fifo.head_ # Null =>
                 /\ [i \in 1..Len(list) |-> fifo.mem[list[i]].key] = arrival
                 /\ \A k \in DOMAIN fifo.cache_ :
                       Cardinality({i \in 1..Len(list) : list[i] = fifo.cache_[k]}) = 1
                 /\ Len(list) = Cardinality(DOMAIN fifo.cache_)
                 /\ list[Len(list)] = fifo.tail_
                 /\ fifo.mem[fifo.tail_].next = Null
                 /\ fifo.mem[fifo.tail_].key = arrival[Len(arrival)]
\* a put has evicted the head of a queue of two, and the queue again holds two keys with
\* the key just put at tail_
C39_Witness ==
    /\ policy = "FIFO" /\ ret.op = "put" /\ removed # {} /\ Len(FifoList(fifo)) = 2
    /\ fifo.mem[fifo.tail_].key = ret.key /\ fifo.mem[fifo.head_].key # ret.key

\* C35: an LruKCache with K = 1 beside an LruCache of the same capacity, both given the
\* same calls, with strictly increasing timestamps: after every call get has returned the
\* same result from both (found or thrown, and the value), contains is the same for every
\* key, size and empty are the same, and the history table of LRU-K is empty.
C35_LruK1IsLru ==
    policy = "LRU+LRU_K" =>
       /\ ret.lru = ret.lruk
       /\ \A key \in Keys :
             LruConstCalls(lru, key).contains = LruKConstCalls(lruk, key).contains
       /\ LruConstCalls(lru, NoKey).size = LruKConstCalls(lruk, NoKey).size
       /\ LruConstCalls(lru, NoKey).empty = LruKConstCalls(lruk, NoKey).empty
       /\ DOMAIN lruk.history_ = {}
       /\ \A key \in DOMAIN lru.cache_ : lru.mem[lru.cache_[key]].value = lruk.cache_[key].value
\* both caches are full with two keys, a get has just found in both the key that a put
\* would have evicted had an earlier get not refreshed it, after a put that evicted
C35_Witness ==
    /\ policy = "LRU+LRU_K" /\ ret.op = "get" /\ ret.lru.ok /\ ret.lruk.ok
    /\ lru.size_ = 2 /\ lru.capacity_ = 2 /\ clock >= 5
    /\ \E key \in Keys : key < ret.key /\ key \notin DOMAIN lruk.cache_
    /\ \E key \in Keys : key > ret.key /\ key \in DOMAIN lruk.cache_

\* C34: LRU and LFU called as the thread tests call them, put and clear under a unique_lock
\* and get, contains and size under a shared_lock of the tests' own mutex: in every state
\* the list of LRU holds exactly the indexed keys, every node of an LFU bucket belongs to
\* an indexed key and the bucket counters are right, size() <= capacity(), the node a get
\* is about to relink is still the indexed node of its key, and no get has touched freed
\* memory.
C34_TestLockKeepsGetSafe ==
    /\ fault = "none"
    /\ \A t \in Threads :
          pc[t] = "relink" => /\ local[t].key \in DOMAIN Index
                              /\ Index[local[t].key] = local[t].node
                              /\ local[t].node \in DOMAIN Engine.mem
    /\ policy = "LRU" => /\ ListIsIndex(lru.mem, LruList(lru), lru.cache_)
                         /\ lru.size_ = Cardinality(DOMAIN lru.cache_)
                         /\ lru.size_ <= lru.capacity_
    /\ policy = "LFU" => /\ BucketsHoldIndexedNodes(lfu)
                         /\ \A k \in DOMAIN lfu.cache_ :
                               \E f \in DOMAIN lfu.frequency_buckets_ :
                                  \E i \in 1..Len(BucketList(lfu, f)) :
                                     BucketList(lfu, f)[i] = lfu.cache_[k]
                         /\ LfuSize(lfu) <= lfu.capacity_
\* in a full LFU cache one thread has just returned from a get of a key, having raised
\* the frequency of its node, while another thread is between the two steps of a get of
\* the same key
C34_Witness ==
    /\ policy = "LFU" /\ LfuSize(lfu) = lfu.capacity_ /\ lfu.capacity_ = MaxCap
    /\ ret.op = "get" /\ ret.ok
    /\ \E t \in Threads : pc[t] = "relink" /\ local[t].key = ret.key
    /\ GetFrequency(lfu, ret.key) = 2

C33_LockDiscipline ==
    /\ \A t \in Threads : Waiting(t) => Holds(t) = "none"
    /\ \A t \in Threads : \A u \in Threads \ {t} : Holds(t) = "unique" => Holds(u) = "none"
\* as long as no call has run into undefined behaviour, every call that has started returns
C33_NoThreadWaitsForEver ==
    \A t \in Threads : (pc[t] # "idle") ~> (pc[t] = "idle" \/ fault # "none")

\* C36: FIFO and LRU-K with several callers: every call holds mutex_ from its lookup to
\* its return (there is no unlock on the way), no two calls are inside their bodies at once
\* unless neither writes to the cache, and what a call found at its lookup still holds when
\* it goes on; so each call takes effect as one whole call of a single caller at the step
\* of its return, and the calls return what they return in that order.
C36_FifoAndLruKCallsAreAtomic ==
    policy \in {"FIFO", "LRU_K"} =>
       /\ fault = "none"
       /\ \A t \in Threads : pc[t] \notin {"relock", "relink"}
       /\ \A t \in Threads : pc[t] = "act" => local[t].node = CacheFind(local[t].key)
       /\ \A t \in Threads : \A u \in Threads \ {t} :
             (Holds(t) # "none" /\ Holds(u) # "none")
                => (~Writes(local[t].op) /\ ~Writes(local[u].op))
\* in LRU-K one thread is inside a get that has found its key, and another thread waits
\* for mutex_ with a put of the same key
C36_Witness ==
    /\ policy = "LRU_K"
    /\ \E t \in Threads : \E u \in Threads \ {t} :
          /\ pc[t] = "act" /\ local[t].op = "get" /\ local[t].node # Null
          /\ pc[u] = "lock" /\ local[u].op = "put" /\ local[u].key = local[t].key
====
